---- MODULE Spec2Model ----
(***************************************************************************)
(* Frame orchestration of the Corebryo engine: EngineRuntime (Initialize,  *)
(* Tick, OnResize, Shutdown), VulkanSwapchain (Create, Recreate, Destroy)  *)
(* and VulkanRenderer (Create, Recreate, Destroy, DrawFrame), together     *)
(* with the device-side state the Vulkan calls act on (fence, semaphores,  *)
(* queue work in flight, staleness of the swapchain).                      *)
(*                                                                         *)
(* One CPU thread runs the handlers; pc is its position.  The GPU is a     *)
(* second process that completes submitted work.  A blocking wait is a     *)
(* step that is enabled only once the awaited condition holds.             *)
(***************************************************************************)
EXTENDS Integers, Sequences, FiniteSets, TLC

(***************************************************************************)
(* Bounds                                                                  *)
(***************************************************************************)
\* largest width/height of an extent
MaxDim == 1
\* largest number of images a swapchain is created with
MaxImages == 3
\* largest number of draw items handed to the renderer per frame
MaxItems == 1
\* largest width/height a surface reports when the swapchain settings are
\* selected (SelectSpec); requests go one beyond it
MaxSurfaceDim == 3
\* largest minImageCount a surface reports (SelectSpec); maxImageCount goes
\* one beyond it
MaxSurfaceImages == 3

\* Longest list of draw items handed to the recording stages on their own
MaxStageItems == 2

\* Most physical devices the platform enumerates
MaxDevices == 2

\* Most queue families a physical device reports
MaxFamilies == 2

\* Most lines of a skybox catalog
MaxLines == 3

\* Largest cubemap face, in pixels a side
MaxFaceSize == 5

\* Number of entity ids the operations on a sparse-set store range over
MaxIds == 3

\* Number of entity ids the operations on a scene range over
MaxEntities == 2

\* Most iterations of the editor's main loop
MaxLoops == 12

\* Number of window objects, and the highest GLFW reference count
MaxWindows == 3
MaxRefs == 3

\* Largest cursor coordinate, and most events one poll delivers
MaxCursor == 1
MaxEvents == 3

\* Most loads of skybox resources
MaxLoads == 5

\* Widest HDR scanline, and the longest rest of an HDR file
MaxWidth == 2
MaxFileLen == 8

Dims == 0..MaxDim
Extents == Dims \X Dims
SquareExtents == { <<d, d>> : d \in Dims }
ZeroExtent == <<0, 0>>

\* VulkanSwapchain.cpp:122  (capabilities.currentExtent.width != UINT32_MAX)
UINT32_MAX_EXTENT == <<-1, -1>>

VARIABLES
    pc,      \* position of the CPU thread
    ret,     \* caller to return to: "host", "init" or "tick"
    rt,      \* EngineRuntime fields
    sc,      \* VulkanSwapchain fields
    r,       \* VulkanRenderer fields
    dev,     \* device-side state of the Vulkan objects
    fr,      \* locals of the running DrawFrame call and its command buffer
    call,    \* locals of the running Initialize / OnResize call
    hist     \* history of the run (observation only, never read by the code)

vars == <<pc, ret, rt, sc, r, dev, fr, call, hist>>

(***************************************************************************)
(* Pure helpers                                                            *)
(***************************************************************************)
Min2(a, b) == IF a < b THEN a ELSE b
Max2(a, b) == IF a > b THEN a ELSE b

IsZeroArea(e) == e[1] = 0 \/ e[2] = 0

\* Surface capability reports: either the surface dictates the extent
\* (currentExtent defined, min = max = current) or it leaves it to the
\* swapchain (currentExtent = UINT32_MAX) within [min, max].
CapsSet ==
    { [currentExtent |-> e, minImageExtent |-> e, maxImageExtent |-> e,
       minImageCount |-> n, maxImageCount |-> m] :
         e \in SquareExtents, n \in {2}, m \in {0, 2} }
    \cup
    { [currentExtent |-> UINT32_MAX_EXTENT, minImageExtent |-> <<1, 1>>,
       maxImageExtent |-> <<MaxDim, MaxDim>>,
       minImageCount |-> n, maxImageCount |-> m] : n \in {2}, m \in {0, 2} }

\* ChooseExtent as it would be without the clamp to the surface's range
ChooseExtent_Unclamped(caps, Width, Height) ==
    IF caps.currentExtent # UINT32_MAX_EXTENT
    THEN caps.currentExtent
    ELSE <<Width, Height>>

\* ChooseImageCount as it would be without the cap at maxImageCount
ChooseImageCount_Uncapped(caps) == caps.minImageCount + 1

\* VulkanSwapchain::Create, "Determine swapchain extent"
ChooseExtent(caps, Width, Height) ==
    IF caps.currentExtent # UINT32_MAX_EXTENT
    THEN caps.currentExtent
    ELSE << Max2(caps.minImageExtent[1], Min2(caps.maxImageExtent[1], Width)),
            Max2(caps.minImageExtent[2], Min2(caps.maxImageExtent[2], Height)) >>

\* VulkanSwapchain::Create, "Determine image count"
ChooseImageCount(caps) ==
    LET imageCount == caps.minImageCount + 1
    IN  IF caps.maxImageCount > 0 /\ imageCount > caps.maxImageCount
        THEN caps.maxImageCount
        ELSE imageCount

\* VulkanSwapchain::Create, "Select present mode": the loop over the modes
\* the surface enumerates, with presentMode as assigned so far.
RECURSIVE PresentModeLoop(_, _, _)
PresentModeLoop(EnableVsync, presentModes, presentMode) ==
    IF presentModes = <<>> THEN presentMode
    ELSE LET mode == Head(presentModes)
         IN  IF ~EnableVsync /\ mode = "VK_PRESENT_MODE_MAILBOX_KHR"
             THEN mode
             ELSE IF ~EnableVsync /\ mode = "VK_PRESENT_MODE_IMMEDIATE_KHR"
                  THEN PresentModeLoop(EnableVsync, Tail(presentModes), mode)
                  ELSE PresentModeLoop(EnableVsync, Tail(presentModes),
                                       presentMode)

ChoosePresentMode(EnableVsync, presentModes) ==
    PresentModeLoop(EnableVsync, presentModes,
                    IF EnableVsync THEN "VK_PRESENT_MODE_FIFO_KHR"
                    ELSE "VK_PRESENT_MODE_IMMEDIATE_KHR")

\* The numbers of images vkGetSwapchainImagesKHR can report for a swapchain
\* created with minImageCount = ChooseImageCount(caps)
\* (VulkanSwapchain.cpp:174-181): at least the requested number, at most
\* the surface's maximum when it has one.
ImageCounts(caps) ==
    { n \in ChooseImageCount(caps)..MaxImages :
        caps.maxImageCount = 0 \/ n <= caps.maxImageCount }

\* A draw item as the recording loops see it (RenderItem.h, Mesh.h):
\* a mesh drawn with an index buffer, a mesh drawn without one, or an item
\* the loops skip (null mesh or VertexCount == 0).
ItemKinds == {"Indexed", "NonIndexed", "NoMesh"}

RECURSIVE SeqsUpTo(_, _)
SeqsUpTo(S, n) ==
    IF n = 0 THEN { <<>> }
    ELSE LET shorter == SeqsUpTo(S, n - 1)
         IN  shorter \cup { Append(q, x) : q \in shorter, x \in S }

ItemLists == SeqsUpTo(ItemKinds, MaxItems)

\* The draw calls one pass over RenderItems records
\* (DrawFrame shadow loop, RecordOpaqueStage loop).
RECURSIVE DrawCalls(_, _)
DrawCalls(items, pass) ==
    IF items = <<>> THEN <<>>
    ELSE LET item == Head(items)
             rest == DrawCalls(Tail(items), pass)
         IN  IF item = "NoMesh" THEN rest
             ELSE IF item = "Indexed"
                  THEN <<[cmd |-> "DrawIndexed", pass |-> pass]>> \o rest
                  ELSE <<[cmd |-> "Draw", pass |-> pass]>> \o rest

\* The Vulkan objects the swapchain and the renderer own, named after the
\* field that holds them (VulkanSwapchain.h, VulkanRenderer.h); a name
\* stands for the field's whole group (ShadowImage: image, memory, view,
\* sampler, render pass and framebuffer of the shadow attachment).
ObjectKinds ==
    {"Swapchain", "SwapchainImageViews", "DescriptorSetLayout",
     "UniformBuffer", "DescriptorPool", "ShadowImage", "DiffuseImage",
     "Pipeline", "Skybox", "SkyboxPipeline", "CubeMesh", "DepthImage",
     "ColorImages", "Framebuffers", "CommandPool", "CommandBuffers",
     "ImageAvailable", "RenderFinished", "InFlightFence"}

\* Calls that create (vkCreate*, vkAllocate*) or release (vkDestroy*,
\* vkFree*) n objects of one kind; a release behind a null check is made
\* only when the handle is not null.
CreateN(obj, n) ==
    IF n = 0 THEN <<>> ELSE <<[op |-> "create", obj |-> obj, n |-> n]>>
DestroyN(obj, n) ==
    IF n = 0 THEN <<>> ELSE <<[op |-> "destroy", obj |-> obj, n |-> n]>>
DestroyIf(notNull, obj) == IF notNull THEN DestroyN(obj, 1) ELSE <<>>

\* The objects alive on the device after a sequence of calls
RECURSIVE LiveAfter(_, _)
LiveAfter(live, calls) ==
    IF calls = <<>> THEN live
    ELSE LET c == Head(calls)
         IN  LiveAfter([live EXCEPT ![c.obj] = IF c.op = "create" THEN @ + c.n
                                               ELSE Max2(@ - c.n, 0)],
                       Tail(calls))

\* Some call of the sequence releases an object that is not alive
RECURSIVE BadRelease(_, _)
BadRelease(live, calls) ==
    IF calls = <<>> THEN FALSE
    ELSE LET c == Head(calls)
         IN  \/ c.op = "destroy" /\ c.n > live[c.obj]
             \/ BadRelease(LiveAfter(live, <<c>>), Tail(calls))

\* The history after the program made the calls
Ledger(h, calls) ==
    [h EXCEPT !.live = LiveAfter(h.live, calls),
              !.badRelease = @ \/ BadRelease(h.live, calls)]

(***************************************************************************)
(* Initial state: the objects as their constructors leave them             *)
(***************************************************************************)
\* EngineRuntime::EngineRuntime
RuntimeInit ==
    [ WindowHandle |-> FALSE, Instance |-> FALSE, Device |-> FALSE,
      Surface |-> FALSE, RenderPass |-> FALSE,
      InstanceCreated |-> FALSE, DeviceCreated |-> FALSE,
      SurfaceCreated |-> FALSE, SwapchainCreated |-> FALSE,
      RenderPassCreated |-> FALSE, RendererCreated |-> FALSE,
      Initialized |-> FALSE ]

\* VulkanSwapchain::VulkanSwapchain.  Swapchain = 0 is VK_NULL_HANDLE,
\* ImageFormat = 0 is VK_FORMAT_UNDEFINED; a view is <<swapchain, index>>.
SwapchainInit ==
    [ Swapchain |-> 0, SwapchainImageViews |-> <<>>,
      ImageFormat |-> 0, SwapchainExtent |-> ZeroExtent ]

\* VulkanRenderer::VulkanRenderer.  A BOOLEAN field is "handle is not null";
\* CommandBuffers and ColorImages are the sizes of the vectors; Framebuffers
\* holds, per framebuffer, the swapchain image view it was created on;
\* DepthExtent and ColorExtent are the extents the depth image and the color
\* images were created with (VulkanRenderer.cpp:1723-1724, 1619-1620).
RendererInit ==
    [ Swapchain |-> 0, RenderPass |-> FALSE, SwapchainExtent |-> ZeroExtent,
      DeviceHandle |-> FALSE, Camera |-> FALSE,
      DescriptorSetLayout |-> FALSE, UniformBuffer |-> FALSE,
      DescriptorPool |-> FALSE, ShadowImage |-> FALSE,
      ShadowLayoutInitialized |-> FALSE, DiffuseImage |-> FALSE,
      Pipeline |-> FALSE, Skybox |-> FALSE, SkyboxPipeline |-> FALSE,
      CubeMesh |-> FALSE, DepthImage |-> FALSE, ColorImages |-> 0,
      DepthExtent |-> ZeroExtent, ColorExtent |-> ZeroExtent,
      Framebuffers |-> <<>>, CommandPool |-> FALSE, CommandBuffers |-> 0,
      ImageAvailable |-> FALSE, RenderFinished |-> FALSE,
      InFlightFence |-> FALSE ]

\* Device-side state: the fence ("none" while it does not exist), the number
\* of pending signals of each semaphore, the frame submission and the
\* one-shot upload the queue is executing, and whether the surface changed
\* since the swapchain was created.
DeviceInit ==
    [ fence |-> "none", imageAvailable |-> 0, renderFinished |-> 0,
      busy |-> FALSE, upload |-> FALSE, stale |-> FALSE ]

\* One frame: the RenderItems the renderer holds for it (SetRenderItems
\* precedes every DrawFrame, EngineRuntime.cpp:132 and 483), the DrawFrame
\* locals and the contents of the command buffer being recorded
FrameInit ==
    [ RenderItems |-> <<>>, imageIndex |-> 0, acquireResult |-> "none",
      submitResult |-> "none", presentResult |-> "none", cmdLog |-> <<>>,
      acquires |-> 0 ]

\* step: index into CreateSteps of the running VulkanRenderer::Create;
\* Width, Height: the arguments of the running OnResize
CallInit == [ step |-> 0, Width |-> 0, Height |-> 0 ]

\* shadowFrames: frames recorded since the shadow attachment was created
\*   (0, or 1 for "one or more");
\* heal: "condition" once a stale acquisition or a failed present happened;
\*   then "resized" once OnResize ran through its recreation, "healed" when
\*   in addition both recreations succeeded and the surface has not changed
\*   again; back to "none" when the next DrawFrame has returned;
\* live: the number of objects of each kind alive on the device;
\* badRelease: some call released an object that was not alive.
HistInit ==
    [ shadowFrames |-> 0, heal |-> "none",
      live |-> [k \in ObjectKinds |-> 0], badRelease |-> FALSE ]

Init ==
    /\ pc = "idle"
    /\ ret = "host"
    /\ rt = RuntimeInit
    /\ sc = SwapchainInit
    /\ r = RendererInit
    /\ dev = DeviceInit
    /\ fr = FrameInit
    /\ call = CallInit
    /\ hist = HistInit

(***************************************************************************)
(* The GPU and the surface                                                 *)
(***************************************************************************)
\* The queue finishes the submitted frame: the fence passed to
\* vkQueueSubmit (VulkanRenderer.cpp:904) is signaled.
GpuCompleteFrame ==
    /\ dev.busy
    /\ dev' = [dev EXCEPT !.busy = FALSE, !.fence = "signaled"]
    /\ UNCHANGED <<pc, ret, rt, sc, r, fr, call, hist>>

\* The queue finishes a one-shot upload (EndSingleTimeCommands).
GpuCompleteUpload ==
    /\ dev.upload
    /\ dev' = [dev EXCEPT !.upload = FALSE]
    /\ UNCHANGED <<pc, ret, rt, sc, r, fr, call, hist>>

\* The window is resized or minimized: the swapchain no longer matches
\* the surface.  The program observes the change only through
\* vkAcquireNextImageKHR and vkQueuePresentKHR, so the change is taken
\* just before one of the two calls.
SurfaceChanged ==
    /\ pc \in {"df_acquire", "df_present"}
    /\ sc.Swapchain # 0
    /\ ~dev.stale
    /\ dev' = [dev EXCEPT !.stale = TRUE]
    /\ hist' = [hist EXCEPT !.heal = IF @ = "healed" THEN "resized" ELSE @]
    /\ UNCHANGED <<pc, ret, rt, sc, r, fr, call>>

\* Results vkAcquireNextImageKHR can report for a swapchain
AcquireResults(stale) ==
    IF stale THEN {"VK_ERROR_OUT_OF_DATE_KHR", "VK_SUBOPTIMAL_KHR"}
    ELSE {"VK_SUCCESS"}

\* Results vkQueuePresentKHR can report for a swapchain
PresentResults(stale) ==
    IF stale THEN {"VK_ERROR_OUT_OF_DATE_KHR", "VK_SUBOPTIMAL_KHR"}
    ELSE {"VK_SUCCESS"}

SubmitResults == {"VK_SUCCESS", "VK_ERROR_DEVICE_LOST"}

(***************************************************************************)
(* VulkanRenderer::DrawFrame                                               *)
(***************************************************************************)
Record(entries) == [fr EXCEPT !.cmdLog = fr.cmdLog \o entries]

\* VulkanRenderer.cpp:687-690
DrawFrameGuardPasses ==
    ~(r.Swapchain = 0 \/ ~r.RenderPass \/ r.CommandBuffers = 0)

DF_Guard ==
    /\ pc = "df_guard"
    /\ pc' = IF DrawFrameGuardPasses THEN "df_wait" ELSE "df_return"
    /\ UNCHANGED <<ret, rt, sc, r, dev, fr, call, hist>>

\* DF_WaitForFences as it would be without the wait: DrawFrame goes on
\* whatever the state of the fence.
DF_WaitForFences_NoWait ==
    /\ pc = "df_wait"
    /\ pc' = "df_acquire"
    /\ UNCHANGED <<ret, rt, sc, r, dev, fr, call, hist>>

\* VulkanRenderer.cpp:692  vkWaitForFences(..., UINT64_MAX) returns once
\* the fence is signaled.
DF_WaitForFences ==
    /\ pc = "df_wait"
    /\ dev.fence = "signaled"
    /\ pc' = "df_acquire"
    /\ UNCHANGED <<ret, rt, sc, r, dev, fr, call, hist>>

\* AcquireProceeds as it would be if every result were taken as an image
AcquireProceeds_Always(acquireResult) == acquireResult = acquireResult

\* AcquireProceeds as it would be if only VK_SUCCESS were taken as an image
AcquireProceeds_SuccessOnly(acquireResult) == acquireResult = "VK_SUCCESS"

\* VulkanRenderer.cpp:703
AcquireProceeds(acquireResult) ==
    ~(acquireResult # "VK_SUCCESS" /\ acquireResult # "VK_SUBOPTIMAL_KHR")

\* VulkanRenderer.cpp:694-706.  A successful (or suboptimal) acquisition
\* signals ImageAvailable and yields an index of the swapchain's images.
DF_Acquire ==
    /\ pc = "df_acquire"
    /\ \E acquireResult \in AcquireResults(dev.stale) :
         IF AcquireProceeds(acquireResult)
         THEN \E imageIndex \in 0..(Len(sc.SwapchainImageViews) - 1) :
                /\ fr' = [fr EXCEPT !.acquireResult = acquireResult,
                                    !.imageIndex = imageIndex,
                                    !.acquires = fr.acquires + 1]
                /\ dev' = [dev EXCEPT
                             !.imageAvailable = Min2(dev.imageAvailable + 1, 2)]
                /\ pc' = "df_reset"
                /\ hist' = hist
         ELSE /\ fr' = [fr EXCEPT !.acquireResult = acquireResult,
                                  !.acquires = fr.acquires + 1]
              /\ dev' = dev
              /\ pc' = "df_return"
              /\ hist' = [hist EXCEPT
                            !.heal = IF @ = "none" THEN "condition" ELSE @]
    /\ UNCHANGED <<ret, rt, sc, r, call>>

\* VulkanRenderer.cpp:708-717: reset the fence, take CommandBuffers[imageIndex],
\* reset it and begin recording.  Indexing past the end of the vector is
\* undefined: the process may die or go on with whatever it read.
DF_ResetFence ==
    /\ pc = "df_reset"
    /\ dev' = [dev EXCEPT !.fence = "unsignaled"]
    /\ fr' = [fr EXCEPT !.cmdLog = <<>>]
    /\ \/ pc' = "rec_shadow_to_depth"
       \/ fr.imageIndex >= r.CommandBuffers /\ pc' = "crashed"
    /\ UNCHANGED <<ret, rt, sc, r, call, hist>>

\* VulkanRenderer.cpp:719-746
Rec_ShadowToDepth ==
    /\ pc = "rec_shadow_to_depth"
    /\ fr' = Record(<<[cmd |-> "Barrier",
                       oldLayout |-> IF r.ShadowLayoutInitialized
                                     THEN "DEPTH_STENCIL_READ_ONLY_OPTIMAL"
                                     ELSE "UNDEFINED",
                       newLayout |-> "DEPTH_STENCIL_ATTACHMENT_OPTIMAL"]>>)
    /\ pc' = "rec_shadow"
    /\ UNCHANGED <<ret, rt, sc, r, dev, call, hist>>

\* Rec_ShadowPass as it would be if the main pass were begun right after
\* the shadow pass, without the barrier to the shader-readable layout.
Rec_ShadowPass_NoReadBarrier ==
    /\ pc = "rec_shadow"
    /\ fr' = Record(<<[cmd |-> "BeginShadowPass"]>>
                    \o DrawCalls(fr.RenderItems, "shadow")
                    \o <<[cmd |-> "EndShadowPass"]>>)
    /\ pc' = "rec_main_begin"
    /\ UNCHANGED <<ret, rt, sc, r, dev, call, hist>>

\* VulkanRenderer.cpp:748-825
Rec_ShadowPass ==
    /\ pc = "rec_shadow"
    /\ fr' = Record(<<[cmd |-> "BeginShadowPass"]>>
                    \o DrawCalls(fr.RenderItems, "shadow")
                    \o <<[cmd |-> "EndShadowPass"]>>)
    /\ pc' = "rec_shadow_to_read"
    /\ UNCHANGED <<ret, rt, sc, r, dev, call, hist>>

\* Rec_ShadowToRead as it would be without line 853: the flag stays unset.
Rec_ShadowToRead_FlagNotSet ==
    /\ pc = "rec_shadow_to_read"
    /\ fr' = Record(<<[cmd |-> "Barrier",
                       oldLayout |-> "DEPTH_STENCIL_ATTACHMENT_OPTIMAL",
                       newLayout |-> "DEPTH_STENCIL_READ_ONLY_OPTIMAL"]>>)
    /\ hist' = [hist EXCEPT !.shadowFrames = Min2(hist.shadowFrames + 1, 1)]
    /\ pc' = "rec_main_begin"
    /\ UNCHANGED <<ret, rt, sc, r, dev, call>>

\* VulkanRenderer.cpp:827-853
Rec_ShadowToRead ==
    /\ pc = "rec_shadow_to_read"
    /\ fr' = Record(<<[cmd |-> "Barrier",
                       oldLayout |-> "DEPTH_STENCIL_ATTACHMENT_OPTIMAL",
                       newLayout |-> "DEPTH_STENCIL_READ_ONLY_OPTIMAL"]>>)
    /\ r' = [r EXCEPT !.ShadowLayoutInitialized = TRUE]
    /\ hist' = [hist EXCEPT !.shadowFrames = Min2(hist.shadowFrames + 1, 1)]
    /\ pc' = "rec_main_begin"
    /\ UNCHANGED <<ret, rt, sc, dev, call>>

\* VulkanRenderer.cpp:855-883: begin the main pass on Framebuffers[imageIndex]
\* (undefined when the index is past the end of the vector).
Rec_BeginMainPass ==
    /\ pc = "rec_main_begin"
    /\ fr' = Record(<<[cmd |-> "BeginMainPass"]>>)
    /\ \/ pc' = "rec_skybox"
       \/ fr.imageIndex >= Len(r.Framebuffers) /\ pc' = "crashed"
    /\ UNCHANGED <<ret, rt, sc, r, dev, call, hist>>

\* VulkanRenderer::RecordSkyboxStage (VulkanRenderer.cpp:598-602) and the
\* early returns of SkyboxRenderer::Record (SkyboxRenderer.cpp:748-756)
Rec_SkyboxStage ==
    /\ pc = "rec_skybox"
    /\ fr' = Record(<<[cmd |-> "SkyboxStage"]>>
                    \o IF r.Camera /\ r.SkyboxPipeline
                          /\ ~IsZeroArea(r.SwapchainExtent)
                       THEN <<[cmd |-> "Draw", pass |-> "skybox"]>>
                       ELSE <<>>)
    /\ pc' = "rec_opaque"
    /\ UNCHANGED <<ret, rt, sc, r, dev, call, hist>>

\* VulkanRenderer::RecordOpaqueStage (VulkanRenderer.cpp:604-674)
Rec_OpaqueStage ==
    /\ pc = "rec_opaque"
    /\ fr' = Record(<<[cmd |-> "OpaqueStage"]>>
                    \o DrawCalls(fr.RenderItems, "opaque"))
    /\ pc' = "rec_transparent"
    /\ UNCHANGED <<ret, rt, sc, r, dev, call, hist>>

\* VulkanRenderer::RecordTransparentStage (VulkanRenderer.cpp:676-681)
Rec_TransparentStage ==
    /\ pc = "rec_transparent"
    /\ fr' = Record(<<[cmd |-> "TransparentStage"]>>)
    /\ pc' = "rec_main_end"
    /\ UNCHANGED <<ret, rt, sc, r, dev, call, hist>>

\* VulkanRenderer.cpp:888-890
Rec_EndMainPass ==
    /\ pc = "rec_main_end"
    /\ fr' = Record(<<[cmd |-> "EndMainPass"]>>)
    /\ pc' = "df_submit"
    /\ UNCHANGED <<ret, rt, sc, r, dev, call, hist>>

\* VulkanRenderer.cpp:892-907: one submission that waits on ImageAvailable,
\* signals RenderFinished and the fence; on failure DrawFrame returns.
DF_Submit ==
    /\ pc = "df_submit"
    /\ \E submitResult \in SubmitResults :
         /\ fr' = [fr EXCEPT !.submitResult = submitResult]
         /\ IF submitResult = "VK_SUCCESS"
            THEN /\ dev' = [dev EXCEPT
                              !.imageAvailable = Max2(dev.imageAvailable - 1, 0),
                              !.renderFinished = Min2(dev.renderFinished + 1, 2),
                              !.busy = TRUE]
                 /\ pc' = "df_present"
            ELSE /\ dev' = dev
                 /\ pc' = "df_return"
    /\ UNCHANGED <<ret, rt, sc, r, call, hist>>

\* DF_Present as it would be if a failed present ended the process
DF_Present_FailureFatal ==
    /\ pc = "df_present"
    /\ \E presentResult \in PresentResults(dev.stale) :
         /\ fr' = [fr EXCEPT !.presentResult = presentResult]
         /\ pc' = IF presentResult = "VK_ERROR_OUT_OF_DATE_KHR"
                  THEN "crashed" ELSE "df_return"
    /\ dev' = [dev EXCEPT !.renderFinished = Max2(dev.renderFinished - 1, 0)]
    /\ UNCHANGED <<ret, rt, sc, r, call, hist>>

\* VulkanRenderer.cpp:909-917: the result of vkQueuePresentKHR is not read.
\* The present waits on RenderFinished whether or not the presentation
\* engine then rejects the image as out of date.
DF_Present ==
    /\ pc = "df_present"
    /\ \E presentResult \in PresentResults(dev.stale) :
         /\ fr' = [fr EXCEPT !.presentResult = presentResult]
         /\ hist' = IF presentResult = "VK_ERROR_OUT_OF_DATE_KHR"
                    THEN [hist EXCEPT
                            !.heal = IF @ = "none" THEN "condition" ELSE @]
                    ELSE hist
    /\ dev' = [dev EXCEPT !.renderFinished = Max2(dev.renderFinished - 1, 0)]
    /\ pc' = "df_return"
    /\ UNCHANGED <<ret, rt, sc, r, call>>

(***************************************************************************)
(* VulkanSwapchain                                                         *)
(***************************************************************************)
\* A handle value no live or dangling reference still holds
FreshSwapchain ==
    LET used == {sc.Swapchain, r.Swapchain}
                \cup { r.Framebuffers[i][1] : i \in DOMAIN r.Framebuffers }
    IN  CHOOSE h \in 1..4 : h \notin used /\ \A g \in 1..(h - 1) : g \in used

\* VulkanSwapchain::Destroy (VulkanSwapchain.cpp:237-254): the format and
\* the extent are left as they were.
SwapchainDestroy(s) ==
    [s EXCEPT !.SwapchainImageViews = <<>>, !.Swapchain = 0]

CreateOutcomes ==
    {"caps_failed", "no_formats", "create_failed", "view_failed", "ok"}

\* VulkanSwapchain::Create (VulkanSwapchain.cpp:45-218) on state s, for the
\* capability report caps, the outcome of the Vulkan calls and the number
\* of images n the driver created.
SwapchainCreate(s, caps, Width, Height, outcome, n, handle) ==
    CASE outcome \in {"caps_failed", "no_formats", "create_failed"} -> s
      [] outcome = "view_failed" ->
           SwapchainDestroy([s EXCEPT !.Swapchain = handle])
      [] outcome = "ok" ->
           [ Swapchain |-> handle,
             SwapchainImageViews |-> [i \in 1..n |-> <<handle, i>>],
             ImageFormat |-> 1,
             SwapchainExtent |-> ChooseExtent(caps, Width, Height) ]

\* SwapchainRecreate as it would be if it destroyed the swapchain and did
\* not create the new one
SwapchainRecreate_DestroyOnly(s, caps, Width, Height, outcome, n, handle) ==
    SwapchainDestroy(s)

\* VulkanSwapchain::Recreate (VulkanSwapchain.cpp:221-234)
SwapchainRecreate(s, caps, Width, Height, outcome, n, handle) ==
    SwapchainCreate(SwapchainDestroy(s), caps, Width, Height, outcome, n, handle)

\* SwapchainDestroyCalls as it would be if Destroy dropped the image views
\* without destroying them
SwapchainDestroyCalls_LeavesViews(s) == DestroyIf(s.Swapchain # 0, "Swapchain")

\* The calls VulkanSwapchain::Destroy makes (VulkanSwapchain.cpp:239-253)
SwapchainDestroyCalls(s) ==
    DestroyN("SwapchainImageViews", Len(s.SwapchainImageViews))
    \o DestroyIf(s.Swapchain # 0, "Swapchain")

\* The calls VulkanSwapchain::Create makes (VulkanSwapchain.cpp:166-211);
\* a failed vkCreateImageView (here: for the last image) is followed by
\* Destroy.
SwapchainCreateCalls(outcome, n) ==
    CASE outcome \in {"caps_failed", "no_formats", "create_failed"} -> <<>>
      [] outcome = "view_failed" ->
           CreateN("Swapchain", 1) \o CreateN("SwapchainImageViews", n - 1)
           \o DestroyN("SwapchainImageViews", n - 1)
           \o DestroyN("Swapchain", 1)
      [] outcome = "ok" ->
           CreateN("Swapchain", 1) \o CreateN("SwapchainImageViews", n)

(***************************************************************************)
(* VulkanRenderer: Create, Recreate, Destroy                               *)
(***************************************************************************)
\* VulkanRenderer::Destroy (VulkanRenderer.cpp:920-1028) with a non-null
\* device: every handle is released and nulled; Swapchain, RenderPass and
\* SwapchainExtent are not touched.
RendererDestroy(x) ==
    [RendererInit EXCEPT !.Swapchain = x.Swapchain,
                         !.RenderPass = x.RenderPass,
                         !.SwapchainExtent = x.SwapchainExtent]

\* The steps of VulkanRenderer::Create after its prologue, in order
\* (VulkanRenderer.cpp:420-557)
CreateSteps ==
    << "DescriptorSetLayout", "UniformBuffer", "DescriptorPool",
       "ShadowResources", "TextureResources", "DescriptorSet", "Pipeline",
       "Skybox", "CubeMesh", "DepthResources", "ColorResources",
       "Framebuffers", "CommandPool", "CommandBuffers", "SyncObjects" >>

\* Steps that upload through a one-shot submission followed by
\* vkQueueWaitIdle (VulkanRenderer.cpp:243-244, VulkanBuffer.cpp:349-350,
\* SkyboxRenderer.cpp:539-540)
UploadSteps == {"TextureResources", "Skybox", "CubeMesh"}

\* VulkanRenderer::CreateCommandBuffers (VulkanRenderer.cpp:1182-1207),
\* successful allocation
CommandBuffersFor(x) ==
    IF Len(x.Framebuffers) = 0 \/ ~x.CommandPool THEN 0
    ELSE Len(x.Framebuffers)

\* The renderer after one step of Create succeeded
CreateStepDone(x, step, views) ==
    CASE step = "DescriptorSetLayout" -> [x EXCEPT !.DescriptorSetLayout = TRUE]
      [] step = "UniformBuffer"   -> [x EXCEPT !.UniformBuffer = TRUE]
      [] step = "DescriptorPool"  -> [x EXCEPT !.DescriptorPool = TRUE]
      [] step = "ShadowResources" ->
           [x EXCEPT !.ShadowImage = TRUE, !.ShadowLayoutInitialized = FALSE]
      [] step = "TextureResources" -> [x EXCEPT !.DiffuseImage = TRUE]
      [] step = "DescriptorSet"   -> x
      [] step = "Pipeline"        -> [x EXCEPT !.Pipeline = TRUE]
      [] step = "Skybox"          ->
           [x EXCEPT !.Skybox = TRUE, !.SkyboxPipeline = TRUE]
      [] step = "CubeMesh"        -> [x EXCEPT !.CubeMesh = TRUE]
      [] step = "DepthResources"  ->
           [x EXCEPT !.DepthImage = TRUE, !.ColorImages = 0,
                     !.DepthExtent = x.SwapchainExtent,
                     !.ColorExtent = ZeroExtent]
      [] step = "ColorResources"  ->
           [x EXCEPT !.ColorImages = Len(views),
                     !.ColorExtent = IF Len(views) = 0 THEN ZeroExtent
                                     ELSE x.SwapchainExtent]
      [] step = "Framebuffers"    -> [x EXCEPT !.Framebuffers = views]
      [] step = "CommandPool"     -> [x EXCEPT !.CommandPool = TRUE]
      [] step = "CommandBuffers"  ->
           [x EXCEPT !.CommandBuffers = CommandBuffersFor(x)]
      [] step = "SyncObjects"     ->
           [x EXCEPT !.ImageAvailable = TRUE, !.RenderFinished = TRUE,
                     !.InFlightFence = TRUE]

RecreateFailures ==
    {"none", "DepthResources", "ColorResources", "Framebuffers", "Skybox",
     "CommandPool", "CommandBuffers"}

\* VulkanRenderer::Recreate (VulkanRenderer.cpp:1030-1100) on renderer x:
\* failAt names the creation call that fails ("none": all succeed), k the
\* number of framebuffers built before vkCreateFramebuffer failed.
RendererRecreate(x, handle, renderPass, views, Extent, failAt, k) ==
    LET p0  == [x EXCEPT !.DeviceHandle = TRUE, !.Swapchain = handle,
                         !.RenderPass = renderPass,
                         !.SwapchainExtent = Extent,
                         !.Framebuffers = <<>>,
                         !.DepthImage = FALSE, !.ColorImages = 0,
                         !.DepthExtent = ZeroExtent,
                         !.ColorExtent = ZeroExtent]
        p1  == [p0 EXCEPT !.DepthImage = TRUE, !.DepthExtent = Extent]
        p2  == [p1 EXCEPT !.ColorImages = Len(views),
                          !.ColorExtent = IF Len(views) = 0 THEN ZeroExtent
                                          ELSE Extent]
        p3f == [p2 EXCEPT !.Framebuffers = SubSeq(views, 1, k)]
        p3  == [p2 EXCEPT !.Framebuffers = views]
        p4f == [p3 EXCEPT !.SkyboxPipeline = FALSE]
        p4  == [p3 EXCEPT !.SkyboxPipeline = TRUE]
        p5  == [p4 EXCEPT !.CommandBuffers =
                            IF p4.CommandPool /\ p4.CommandBuffers # 0
                            THEN 0 ELSE @]
        p6f == [p5 EXCEPT !.CommandPool = FALSE]
        p6  == [p5 EXCEPT !.CommandPool = TRUE]
        p7f == [p6 EXCEPT !.CommandBuffers = 0]
        p7  == [p6 EXCEPT !.CommandBuffers = CommandBuffersFor(p6)]
    IN  IF failAt = "DepthResources" THEN p0
        ELSE IF failAt = "ColorResources" THEN p1
        ELSE IF failAt = "Framebuffers" THEN p3f
        ELSE IF ~x.Skybox THEN p3
        ELSE IF failAt = "Skybox" THEN p4f
        ELSE IF failAt = "CommandPool" THEN p6f
        ELSE IF failAt = "CommandBuffers" THEN p7f
        ELSE p7

\* The value Recreate returns
RendererRecreateOk(x, failAt) == failAt = "none" /\ x.Skybox

\* RendererDestroyCalls as it would be if Destroy released the handles
\* without looking whether they are null
RendererDestroyCalls_NoNullChecks(x) ==
    DestroyN("CommandBuffers", x.CommandBuffers)
    \o DestroyN("Framebuffers", Len(x.Framebuffers))
    \o DestroyN("DepthImage", 1)
    \o DestroyN("ColorImages", x.ColorImages)
    \o DestroyN("DiffuseImage", 1)
    \o DestroyN("SkyboxPipeline", 1)
    \o DestroyN("Skybox", 1)
    \o DestroyN("CommandPool", 1)
    \o DestroyN("ImageAvailable", 1)
    \o DestroyN("RenderFinished", 1)
    \o DestroyN("InFlightFence", 1)
    \o DestroyN("DescriptorPool", 1)
    \o DestroyN("DescriptorSetLayout", 1)
    \o DestroyN("UniformBuffer", 1)
    \o DestroyN("CubeMesh", 1)
    \o DestroyN("Pipeline", 1)
    \o DestroyN("ShadowImage", 1)

\* The calls VulkanRenderer::Destroy makes, in order
\* (VulkanRenderer.cpp:928-1018); each release is behind a null check.
RendererDestroyCalls(x) ==
    DestroyN("CommandBuffers",
             IF x.CommandBuffers # 0 /\ x.CommandPool
             THEN x.CommandBuffers ELSE 0)
    \o DestroyN("Framebuffers", Len(x.Framebuffers))
    \o DestroyIf(x.DepthImage, "DepthImage")
    \o DestroyN("ColorImages", x.ColorImages)
    \o DestroyIf(x.DiffuseImage, "DiffuseImage")
    \o DestroyIf(x.SkyboxPipeline, "SkyboxPipeline")
    \o DestroyIf(x.Skybox, "Skybox")
    \o DestroyIf(x.CommandPool, "CommandPool")
    \o DestroyIf(x.ImageAvailable, "ImageAvailable")
    \o DestroyIf(x.RenderFinished, "RenderFinished")
    \o DestroyIf(x.InFlightFence, "InFlightFence")
    \o DestroyIf(x.DescriptorPool, "DescriptorPool")
    \o DestroyIf(x.DescriptorSetLayout, "DescriptorSetLayout")
    \o DestroyIf(x.UniformBuffer, "UniformBuffer")
    \o DestroyIf(x.CubeMesh, "CubeMesh")
    \o DestroyIf(x.Pipeline, "Pipeline")
    \o DestroyIf(x.ShadowImage, "ShadowImage")

\* The field a step of Create fills with one object
StepObject(step) ==
    CASE step = "ShadowResources"  -> "ShadowImage"
      [] step = "TextureResources" -> "DiffuseImage"
      [] step = "DepthResources"   -> "DepthImage"
      [] OTHER -> step

\* The calls one successful step of VulkanRenderer::Create makes: every
\* creation function first releases what the field still holds
\* (VulkanRenderer.cpp:1162, 1211-1225, 1257, 1304, 1337, 1433, 1603,
\* 1717-1718, 1809; SkyboxRenderer.cpp:647; VulkanPipeline.cpp:109), except
\* CreateFramebuffers, which clears the vector (VulkanRenderer.cpp:1121).
CreateStepCalls(x, step, views) ==
    CASE step = "DescriptorSet" -> <<>>
      [] step = "Skybox" ->
           DestroyIf(x.SkyboxPipeline, "SkyboxPipeline")
           \o DestroyIf(x.Skybox, "Skybox")
           \o CreateN("Skybox", 1) \o CreateN("SkyboxPipeline", 1)
      [] step = "DepthResources" ->
           DestroyIf(x.DepthImage, "DepthImage")
           \o DestroyN("ColorImages", x.ColorImages)
           \o CreateN("DepthImage", 1)
      [] step = "ColorResources" ->
           DestroyN("ColorImages", x.ColorImages)
           \o CreateN("ColorImages", Len(views))
      [] step = "Framebuffers" -> CreateN("Framebuffers", Len(views))
      [] step = "CommandBuffers" ->
           CreateN("CommandBuffers", CommandBuffersFor(x))
      [] step = "SyncObjects" ->
           DestroyIf(x.ImageAvailable, "ImageAvailable")
           \o DestroyIf(x.RenderFinished, "RenderFinished")
           \o DestroyIf(x.InFlightFence, "InFlightFence")
           \o CreateN("ImageAvailable", 1) \o CreateN("RenderFinished", 1)
           \o CreateN("InFlightFence", 1)
      [] OTHER ->
           DestroyIf(x[StepObject(step)], StepObject(step))
           \o CreateN(StepObject(step), 1)

\* RendererRecreateCalls as it would be if Recreate rebuilt the pipelines
\* with everything else that depends on the render pass
RendererRecreateCalls_RebuildsPipelines(x, views, failAt, k) ==
    DestroyN("Framebuffers", Len(x.Framebuffers))
    \o DestroyIf(x.DepthImage, "DepthImage")
    \o DestroyN("ColorImages", x.ColorImages)
    \o DestroyIf(x.Pipeline, "Pipeline")
    \o DestroyIf(x.SkyboxPipeline, "SkyboxPipeline")
    \o CreateN("DepthImage", 1) \o CreateN("ColorImages", Len(views))
    \o CreateN("Framebuffers", Len(views))
    \o CreateN("Pipeline", 1) \o CreateN("SkyboxPipeline", 1)

\* RendererRecreateCalls as it would be if Recreate kept the depth and color
\* images and rebuilt the framebuffers and command buffers only
RendererRecreateCalls_KeepsAttachments(x, views, failAt, k) ==
    DestroyN("Framebuffers", Len(x.Framebuffers))
    \o CreateN("Framebuffers", Len(views))
    \o DestroyN("CommandBuffers", x.CommandBuffers)
    \o CreateN("CommandBuffers", Len(views))

\* The calls VulkanRenderer::Recreate makes (VulkanRenderer.cpp:1046-1096),
\* for the same failAt and k as RendererRecreate.
RendererRecreateCalls(x, views, failAt, k) ==
    LET c0 == DestroyN("Framebuffers", Len(x.Framebuffers))
              \o DestroyIf(x.DepthImage, "DepthImage")
              \o DestroyN("ColorImages", x.ColorImages)
        c1 == c0 \o CreateN("DepthImage", 1)
        c2 == c1 \o CreateN("ColorImages", Len(views))
        c3 == c2 \o CreateN("Framebuffers", Len(views))
        c4f == c3 \o DestroyIf(x.SkyboxPipeline, "SkyboxPipeline")
        c4 == c4f \o CreateN("SkyboxPipeline", 1)
        c5 == c4 \o DestroyN("CommandBuffers",
                             IF x.CommandPool /\ x.CommandBuffers # 0
                             THEN x.CommandBuffers ELSE 0)
        c6f == c5 \o DestroyIf(x.CommandPool, "CommandPool")
        c6 == c6f \o CreateN("CommandPool", 1)
        c7 == c6 \o CreateN("CommandBuffers", Len(views))
    IN  IF failAt = "DepthResources" THEN c0
        ELSE IF failAt = "ColorResources" THEN c1
        ELSE IF failAt = "Framebuffers" THEN c2 \o CreateN("Framebuffers", k)
        ELSE IF ~x.Skybox THEN c3
        ELSE IF failAt = "Skybox" THEN c4f
        ELSE IF failAt = "CommandPool" THEN c6f
        ELSE IF failAt = "CommandBuffers" THEN c6
        ELSE c7

(***************************************************************************)
(* EngineRuntime::DestroyVulkanResources (EngineRuntime.cpp:411-449)       *)
(***************************************************************************)
RuntimeAfterDestroy(x) ==
    [x EXCEPT !.RendererCreated = IF x.DeviceCreated THEN FALSE ELSE @,
              !.RenderPass = IF x.RenderPassCreated THEN FALSE ELSE @,
              !.RenderPassCreated = FALSE,
              !.SwapchainCreated = FALSE,
              !.Device = IF x.DeviceCreated THEN FALSE ELSE @,
              !.DeviceCreated = FALSE,
              !.Surface = IF x.SurfaceCreated THEN FALSE ELSE @,
              !.SurfaceCreated = FALSE,
              !.Instance = IF x.InstanceCreated THEN FALSE ELSE @,
              !.InstanceCreated = FALSE]

\* The objects whose Destroy the function calls, in the order of the calls
RuntimeDestroyOrder(x) ==
    (IF x.DeviceCreated THEN <<"Renderer">> ELSE <<>>)
    \o (IF x.RenderPassCreated THEN <<"RenderPass">> ELSE <<>>)
    \o (IF x.SwapchainCreated THEN <<"Swapchain">> ELSE <<>>)
    \o (IF x.DeviceCreated THEN <<"Device">> ELSE <<>>)
    \o (IF x.SurfaceCreated THEN <<"Surface">> ELSE <<>>)
    \o (IF x.InstanceCreated THEN <<"Instance">> ELSE <<>>)

\* The calls the function makes on the objects of renderer x2 and
\* swapchain s when the runtime is x
DestroyVulkanResourcesCalls(x, x2, s) ==
    (IF x.DeviceCreated THEN RendererDestroyCalls(x2) ELSE <<>>)
    \o (IF x.SwapchainCreated THEN SwapchainDestroyCalls(s) ELSE <<>>)

\* The effect of the destruction on renderer, swapchain and device state.
\* Destroying the renderer destroys the fence and the semaphores.
DestroyVulkanResources ==
    /\ r' = IF rt.DeviceCreated THEN RendererDestroy(r) ELSE r
    /\ sc' = IF rt.SwapchainCreated THEN SwapchainDestroy(sc) ELSE sc
    /\ dev' = IF rt.DeviceCreated
              THEN [dev EXCEPT !.fence = "none", !.imageAvailable = 0,
                               !.renderFinished = 0, !.stale = FALSE]
              ELSE [dev EXCEPT !.stale = IF rt.SwapchainCreated
                                         THEN FALSE ELSE @]
    /\ hist' = Ledger(IF rt.DeviceCreated
                      THEN [hist EXCEPT !.shadowFrames = 0, !.heal = "none"]
                      ELSE hist,
                      DestroyVulkanResourcesCalls(rt, r, sc))

\* No submitted work is executing on the queue
DeviceIdle == ~dev.busy /\ ~dev.upload

(***************************************************************************)
(* EngineRuntime::Shutdown (EngineRuntime.cpp:140-156)                     *)
(***************************************************************************)
\* ShutdownWaits as it would be if Shutdown never waited for the device
ShutdownWaits_Never == FALSE

\* EngineRuntime.cpp:142
ShutdownWaits == rt.Initialized /\ rt.DeviceCreated

\* EngineRuntime.cpp:142-145: vkDeviceWaitIdle, when called, returns once
\* the queue is idle.
Shutdown_WaitIdle == ShutdownWaits => DeviceIdle

\* The host calls Shutdown (or the destructor runs) between handlers; the
\* step ends when the conditional wait has returned.
Shutdown ==
    /\ pc = "idle"
    /\ Shutdown_WaitIdle
    /\ pc' = "sd_destroy"
    /\ ret' = "host"
    /\ UNCHANGED <<rt, sc, r, dev, fr, call, hist>>

\* EngineRuntime.cpp:147-155
Shutdown_Destroy ==
    /\ pc = "sd_destroy"
    /\ DestroyVulkanResources
    /\ rt' = [RuntimeAfterDestroy(rt) EXCEPT !.WindowHandle = FALSE,
                                            !.Initialized = FALSE]
    /\ pc' = IF ret = "init" THEN "init_check" ELSE "idle"
    /\ UNCHANGED <<ret, fr, call>>

(***************************************************************************)
(* EngineRuntime::Initialize (EngineRuntime.cpp:95-120)                    *)
(***************************************************************************)
\* EngineRuntime.cpp:97: Initialize begins with Shutdown().
Initialize ==
    /\ pc = "idle"
    /\ Shutdown_WaitIdle
    /\ pc' = "sd_destroy"
    /\ ret' = "init"
    /\ UNCHANGED <<rt, sc, r, dev, fr, call, hist>>

\* The order in which CreateVulkanResources creates the objects
\* (EngineRuntime.cpp:343-404)
CreationOrder ==
    <<"Instance", "Device", "Surface", "Swapchain", "RenderPass", "Renderer">>

\* The creations up to the surface that can fail.  "DebugMessenger" is
\* VulkanInstance::Create returning false after vkCreateInstance succeeded
\* (VulkanInstance.cpp:114-121, builds with validation enabled).
BootstrapFailures == {"none", "Instance", "DebugMessenger", "Device", "Surface"}

\* EngineRuntime.cpp:99-107 and CreateVulkanResources up to the surface
\* (EngineRuntime.cpp:343-365): failAt names the creation that fails.
\* vkCreateInstance writes the handle without looking at the one the
\* field holds (VulkanInstance.cpp:248).
Initialize_Bootstrap ==
    /\ pc = "init_check"
    /\ \E windowHandle \in BOOLEAN, failAt \in BootstrapFailures :
         IF ~windowHandle
         THEN /\ pc' = "idle"
              /\ ret' = "host"
              /\ rt' = rt
         ELSE /\ rt' = [rt EXCEPT
                 !.WindowHandle = TRUE,
                 !.Instance = IF failAt = "Instance" THEN @ ELSE TRUE,
                 !.InstanceCreated =
                     failAt \notin {"Instance", "DebugMessenger"},
                 !.Device =
                     failAt \notin {"Instance", "DebugMessenger", "Device"},
                 !.DeviceCreated =
                     failAt \notin {"Instance", "DebugMessenger", "Device"},
                 !.Surface = failAt = "none",
                 !.SurfaceCreated = failAt = "none"]
              /\ pc' = IF failAt = "none" THEN "cv_swapchain" ELSE "init_fail"
              /\ ret' = ret
    /\ UNCHANGED <<sc, r, dev, fr, call, hist>>

\* EngineRuntime.cpp:367-380: Swapchain.Create with the framebuffer size
\* (or the fallback size) of the window.
CreateVulkanResources_Swapchain ==
    /\ pc = "cv_swapchain"
    /\ \E caps \in CapsSet, outcome \in CreateOutcomes,
          Width \in 1..MaxDim :
        \E Height \in {Width}, n \in ImageCounts(caps) :
         /\ sc' = SwapchainCreate(sc, caps, Width, Height, outcome, n,
                                  FreshSwapchain)
         /\ hist' = Ledger(hist, SwapchainCreateCalls(outcome, n))
         /\ IF outcome = "ok"
            THEN /\ rt' = [rt EXCEPT !.SwapchainCreated = TRUE]
                 /\ dev' = [dev EXCEPT !.stale = FALSE]
                 /\ pc' = "cv_renderpass"
            ELSE /\ rt' = rt
                 /\ dev' = dev
                 /\ pc' = "init_fail"
    /\ UNCHANGED <<ret, r, fr, call>>

\* EngineRuntime.cpp:382-388, then the prologue of VulkanRenderer::Create
\* (VulkanRenderer.cpp:408-418)
CreateVulkanResources_RenderPass ==
    /\ pc = "cv_renderpass"
    /\ \E ok \in BOOLEAN :
         IF ok
         THEN /\ rt' = [rt EXCEPT !.RenderPass = TRUE,
                                  !.RenderPassCreated = TRUE]
              /\ r' = [r EXCEPT !.DeviceHandle = TRUE,
                                !.Swapchain = sc.Swapchain,
                                !.RenderPass = TRUE,
                                !.SwapchainExtent = sc.SwapchainExtent,
                                !.Camera = TRUE]
              /\ call' = [call EXCEPT !.step = 1]
              /\ pc' = "rc"
         ELSE /\ rt' = rt
              /\ r' = r
              /\ call' = call
              /\ pc' = "init_fail"
    /\ UNCHANGED <<ret, sc, dev, fr, hist>>

\* One step of VulkanRenderer::Create (VulkanRenderer.cpp:420-557): the
\* step fails, or succeeds, or (upload steps) submits its one-shot upload.
RendererCreate_Step ==
    /\ pc = "rc"
    /\ LET step == CreateSteps[call.step]
           views == sc.SwapchainImageViews
       IN  \/ \* the step fails before any submission
              /\ pc' = "init_fail"
              /\ UNCHANGED <<r, dev, call, hist>>
           \/ \* an upload step submits and waits for the queue
              /\ step \in UploadSteps
              /\ dev' = [dev EXCEPT !.upload = TRUE]
              /\ pc' = "rc_wait"
              /\ UNCHANGED <<r, call, hist>>
           \/ \* any other step succeeds
              /\ step \notin UploadSteps
              /\ step = "Framebuffers" => r.ColorImages = Len(views)
              /\ r' = CreateStepDone(r, step, views)
              /\ dev' = IF step = "SyncObjects"
                        THEN [dev EXCEPT !.fence = "signaled",
                                         !.imageAvailable = 0,
                                         !.renderFinished = 0]
                        ELSE dev
              /\ hist' = Ledger(IF step = "ShadowResources"
                                THEN [hist EXCEPT !.shadowFrames = 0]
                                ELSE hist,
                                CreateStepCalls(r, step, views))
              /\ IF call.step = Len(CreateSteps)
                 THEN pc' = "init_scene" /\ call' = CallInit
                 ELSE pc' = "rc" /\ call' = [call EXCEPT !.step = @ + 1]
    /\ UNCHANGED <<ret, rt, sc, fr>>

\* vkQueueWaitIdle after the one-shot submission returns once the queue is
\* idle; the rest of the step then succeeds or fails.
RendererCreate_QueueWaitIdle ==
    /\ pc = "rc_wait"
    /\ DeviceIdle
    /\ \/ /\ r' = CreateStepDone(r, CreateSteps[call.step],
                                 sc.SwapchainImageViews)
          /\ hist' = Ledger(hist, CreateStepCalls(r, CreateSteps[call.step],
                                                  sc.SwapchainImageViews))
          /\ call' = [call EXCEPT !.step = @ + 1]
          /\ pc' = "rc"
       \/ /\ pc' = "init_fail"
          /\ UNCHANGED <<r, call, hist>>
    /\ UNCHANGED <<ret, rt, sc, dev, fr>>

\* EngineRuntime.cpp:109-113: creation failed, destroy what was created.
Initialize_Fail ==
    /\ pc = "init_fail"
    /\ DestroyVulkanResources
    /\ rt' = RuntimeAfterDestroy(rt)
    /\ call' = CallInit
    /\ pc' = "idle"
    /\ ret' = "host"
    /\ UNCHANGED fr

\* EngineRuntime.cpp:405-406, 115-116: RendererCreated, CreateScene, and
\* BuildFirstFrame (EngineRuntime.cpp:480-489), which hands an item list
\* to the renderer and calls DrawFrame.
Initialize_BuildFirstFrame ==
    /\ pc = "init_scene"
    /\ rt' = [rt EXCEPT !.RendererCreated = TRUE]
    /\ fr' = [FrameInit EXCEPT !.RenderItems = <<>>]
    /\ pc' = "df_guard"
    /\ UNCHANGED <<ret, sc, r, dev, call, hist>>

\* EngineRuntime.cpp:118-119, after DrawFrame returned
Initialize_Done ==
    /\ pc = "df_return"
    /\ ret = "init"
    /\ rt' = [rt EXCEPT !.Initialized = TRUE]
    /\ fr' = FrameInit
    /\ pc' = "idle"
    /\ ret' = "host"
    /\ UNCHANGED <<sc, r, dev, call, hist>>

(***************************************************************************)
(* EngineRuntime::Tick (EngineRuntime.cpp:123-137)                         *)
(***************************************************************************)
\* EngineRuntime.cpp:320
TickRenderSkips == IsZeroArea(sc.SwapchainExtent)

\* EngineRuntime.cpp:125-132 with TickSimulation's BuildRenderList
\* (EngineRuntime.cpp:231) and TickRender (EngineRuntime.cpp:315-328):
\* the item list is rebuilt, then the frame is skipped or drawn.
Tick ==
    /\ pc = "idle"
    /\ IF ~rt.Initialized \/ TickRenderSkips
       THEN UNCHANGED <<pc, ret, fr>>
       ELSE /\ \E items \in ItemLists :
                 fr' = [FrameInit EXCEPT !.RenderItems = items]
            /\ pc' = "df_guard"
            /\ ret' = "tick"
    /\ UNCHANGED <<rt, sc, r, dev, call, hist>>

\* The frame that just returned met a stale acquisition or a failed present
FrameHitCondition ==
    \/ fr.acquireResult = "VK_ERROR_OUT_OF_DATE_KHR"
    \/ fr.presentResult = "VK_ERROR_OUT_OF_DATE_KHR"

\* EngineRuntime.cpp:133-136, after DrawFrame returned
Tick_PostRender ==
    /\ pc = "df_return"
    /\ ret = "tick"
    /\ fr' = FrameInit
    /\ hist' = [hist EXCEPT
                  !.heal = IF @ \in {"resized", "healed"}
                           THEN IF FrameHitCondition THEN "condition"
                                ELSE "none"
                           ELSE @]
    /\ pc' = "idle"
    /\ ret' = "host"
    /\ UNCHANGED <<rt, sc, r, dev, call>>

(***************************************************************************)
(* EngineRuntime::OnResize (EngineRuntime.cpp:159-191)                     *)
(***************************************************************************)
\* EngineRuntime.cpp:161-169
OnResizeProceeds(width, height) ==
    /\ ~(~rt.Initialized \/ ~rt.SwapchainCreated \/ ~rt.RendererCreated)
    /\ ~(width <= 0 \/ height <= 0)

\* The sizes the host reports: square, or with a zero dimension
ResizeInputs ==
    { e \in Extents : e[1] = e[2] \/ e[1] = 0 \/ e[2] = 0 }

\* EngineRuntime.cpp:161-171: the guards, then vkDeviceWaitIdle, which
\* returns once the queue is idle.
OnResize ==
    /\ pc = "idle"
    /\ \E e \in ResizeInputs :
         IF OnResizeProceeds(e[1], e[2])
         THEN /\ DeviceIdle
              /\ call' = [call EXCEPT !.Width = e[1], !.Height = e[2]]
              /\ pc' = "rs_swapchain"
         ELSE UNCHANGED <<pc, call>>
    /\ UNCHANGED <<ret, rt, sc, r, dev, fr, hist>>

\* EngineRuntime.cpp:173-180: Swapchain.Recreate; its result is not read.
OnResize_SwapchainRecreate ==
    /\ pc = "rs_swapchain"
    /\ \E caps \in CapsSet, outcome \in CreateOutcomes :
        \E n \in ImageCounts(caps) :
         /\ sc' = SwapchainRecreate(sc, caps, call.Width, call.Height,
                                    outcome, n, FreshSwapchain)
         /\ dev' = [dev EXCEPT !.stale = FALSE]
         /\ hist' = Ledger([hist EXCEPT
                               !.heal = IF @ = "none" THEN "none"
                                        ELSE IF outcome = "ok" THEN "healed"
                                        ELSE "resized"],
                           SwapchainDestroyCalls(sc)
                           \o SwapchainCreateCalls(outcome, n))
    /\ call' = CallInit
    /\ pc' = "rs_renderer"
    /\ UNCHANGED <<ret, rt, r, fr>>

\* EngineRuntime.cpp:182-190: Renderer.Recreate with what the swapchain
\* now holds; its result is not read.
OnResize_RendererRecreate ==
    /\ pc = "rs_renderer"
    /\ \E failAt \in RecreateFailures,
          k \in 0..Max2(Len(sc.SwapchainImageViews) - 1, 0) :
         /\ r' = RendererRecreate(r, sc.Swapchain, rt.RenderPass,
                                  sc.SwapchainImageViews, sc.SwapchainExtent,
                                  failAt, k)
         /\ hist' = Ledger([hist EXCEPT
                               !.heal = IF @ = "healed"
                                           /\ ~RendererRecreateOk(r, failAt)
                                        THEN "resized" ELSE @],
                           RendererRecreateCalls(r, sc.SwapchainImageViews,
                                                 failAt, k))
    /\ pc' = "idle"
    /\ UNCHANGED <<ret, rt, sc, dev, fr, call>>

\* What the caller of Initialize learns (EngineRuntime.cpp:109-119): the
\* return value, TRUE when CreateVulkanResources succeeded
InitializeIndication(created) == IF created THEN "success" ELSE "failure"

\* What the caller of OnResize learns (EngineRuntime.cpp:158, 173-190): the
\* function returns void and reads neither the result of Swapchain.Recreate
\* nor the result of Renderer.Recreate
OnResizeIndication(swapchainOk, rendererOk) == "none"

(***************************************************************************)
(* Specification                                                           *)
(***************************************************************************)
Next ==
    \/ Initialize
    \/ Initialize_Bootstrap
    \/ CreateVulkanResources_Swapchain
    \/ CreateVulkanResources_RenderPass
    \/ RendererCreate_Step
    \/ RendererCreate_QueueWaitIdle
    \/ Initialize_Fail
    \/ Initialize_BuildFirstFrame
    \/ Initialize_Done
    \/ Tick
    \/ Tick_PostRender
    \/ DF_Guard
    \/ DF_WaitForFences
    \/ DF_Acquire
    \/ DF_ResetFence
    \/ Rec_ShadowToDepth
    \/ Rec_ShadowPass
    \/ Rec_ShadowToRead
    \/ Rec_BeginMainPass
    \/ Rec_SkyboxStage
    \/ Rec_OpaqueStage
    \/ Rec_TransparentStage
    \/ Rec_EndMainPass
    \/ DF_Submit
    \/ DF_Present
    \/ OnResize
    \/ OnResize_SwapchainRecreate
    \/ OnResize_RendererRecreate
    \/ Shutdown
    \/ Shutdown_Destroy
    \/ GpuCompleteFrame
    \/ GpuCompleteUpload
    \/ SurfaceChanged

Spec == Init /\ [][Next]_vars

TypeOK ==
    /\ pc \in {"idle", "crashed", "sd_destroy", "init_check",
               "cv_swapchain", "cv_renderpass", "rc", "rc_wait", "init_fail",
               "init_scene", "df_guard", "df_wait",
               "df_acquire", "df_reset", "rec_shadow_to_depth", "rec_shadow",
               "rec_shadow_to_read", "rec_main_begin", "rec_skybox",
               "rec_opaque", "rec_transparent", "rec_main_end", "df_submit",
               "df_present", "df_return", "rs_swapchain",
               "rs_renderer"}
    /\ ret \in {"host", "init", "tick"}
    /\ dev.fence \in {"none", "signaled", "unsignaled"}

(***************************************************************************)
(* The program when no Vulkan call fails: the window is there, every       *)
(* creation, allocation and submission succeeds.  Out-of-date and          *)
(* suboptimal swapchains still occur, they are not failures.               *)
(***************************************************************************)
\* EngineRuntime.cpp:99-107, 343-365 with every creation succeeding
NoFault_Initialize_Bootstrap == Initialize_Bootstrap /\ pc' = "cv_swapchain"

\* EngineRuntime.cpp:367-380 with Swapchain.Create succeeding
NoFault_CreateVulkanResources_Swapchain ==
    CreateVulkanResources_Swapchain /\ pc' = "cv_renderpass"

\* EngineRuntime.cpp:382-388 with RenderPass.Create succeeding
NoFault_CreateVulkanResources_RenderPass ==
    CreateVulkanResources_RenderPass /\ pc' = "rc"

\* VulkanRenderer.cpp:420-557 with every step succeeding
NoFault_RendererCreate_Step == RendererCreate_Step /\ pc' # "init_fail"

NoFault_RendererCreate_QueueWaitIdle ==
    RendererCreate_QueueWaitIdle /\ pc' # "init_fail"

\* VulkanRenderer.cpp:893-907 with vkQueueSubmit succeeding
NoFault_DF_Submit == DF_Submit /\ fr'.submitResult = "VK_SUCCESS"

\* EngineRuntime.cpp:173-180 with the Vulkan calls of Swapchain.Recreate
\* succeeding
NoFault_OnResize_SwapchainRecreate ==
    OnResize_SwapchainRecreate /\ sc'.Swapchain # 0

\* EngineRuntime.cpp:182-190 with the Vulkan calls of Renderer.Recreate
\* succeeding
NoFault_OnResize_RendererRecreate ==
    /\ OnResize_RendererRecreate
    /\ r' = RendererRecreate(r, sc.Swapchain, rt.RenderPass,
                             sc.SwapchainImageViews, sc.SwapchainExtent,
                             "none", 0)
    /\ hist'.live = LiveAfter(hist.live,
                              RendererRecreateCalls(r, sc.SwapchainImageViews,
                                                    "none", 0))

NoFaultNext ==
    \/ Initialize
    \/ NoFault_Initialize_Bootstrap
    \/ NoFault_CreateVulkanResources_Swapchain
    \/ NoFault_CreateVulkanResources_RenderPass
    \/ NoFault_RendererCreate_Step
    \/ NoFault_RendererCreate_QueueWaitIdle
    \/ Initialize_BuildFirstFrame
    \/ Initialize_Done
    \/ Tick
    \/ Tick_PostRender
    \/ DF_Guard
    \/ DF_WaitForFences
    \/ DF_Acquire
    \/ DF_ResetFence
    \/ Rec_ShadowToDepth
    \/ Rec_ShadowPass
    \/ Rec_ShadowToRead
    \/ Rec_BeginMainPass
    \/ Rec_SkyboxStage
    \/ Rec_OpaqueStage
    \/ Rec_TransparentStage
    \/ Rec_EndMainPass
    \/ NoFault_DF_Submit
    \/ DF_Present
    \/ OnResize
    \/ NoFault_OnResize_SwapchainRecreate
    \/ NoFault_OnResize_RendererRecreate
    \/ Shutdown
    \/ Shutdown_Destroy
    \/ GpuCompleteFrame
    \/ GpuCompleteUpload
    \/ SurfaceChanged

NoFaultSpec == Init /\ [][NoFaultNext]_vars

(***************************************************************************)
(* The recording stages on their own (VulkanRenderer.cpp:604-681), for     *)
(* every list of draw items with the mesh fields the loops read            *)
(***************************************************************************)
\* A RenderItem as RecordOpaqueStage reads it (RenderItem.h:46-56,
\* Mesh.h:34-43): MeshPtr and IndexBuffer are "not null"
NullMeshItem ==
    [ MeshPtr |-> FALSE, VertexCount |-> 0, HasIndex |-> FALSE,
      IndexCount |-> 0, IndexBuffer |-> FALSE ]

StageItems ==
    {NullMeshItem}
    \cup [ MeshPtr : {TRUE}, VertexCount : {0, 36}, HasIndex : BOOLEAN,
           IndexCount : {0, 36}, IndexBuffer : BOOLEAN ]

StageItemLists == SeqsUpTo(StageItems, MaxStageItems)

\* RecordOpaqueStage with a list that draws every item without looking at
\* its mesh
RECURSIVE OpaqueStageDraws_NoSkip(_)
OpaqueStageDraws_NoSkip(RenderItems) ==
    IF RenderItems = <<>> THEN <<>>
    ELSE LET item == Head(RenderItems)
         IN  (IF item.HasIndex
              THEN <<[cmd |-> "DrawIndexed", count |-> item.IndexCount]>>
              ELSE <<[cmd |-> "Draw", count |-> item.VertexCount]>>)
             \o OpaqueStageDraws_NoSkip(Tail(RenderItems))

\* The draw calls the loop of RecordOpaqueStage records
\* (VulkanRenderer.cpp:623-673)
RECURSIVE OpaqueStageDraws(_)
OpaqueStageDraws(RenderItems) ==
    IF RenderItems = <<>> THEN <<>>
    ELSE LET item == Head(RenderItems)
             rest == OpaqueStageDraws(Tail(RenderItems))
         IN  IF ~item.MeshPtr \/ item.VertexCount = 0
             THEN rest
             ELSE IF item.HasIndex /\ item.IndexCount > 0
                  THEN IF item.IndexBuffer
                       THEN <<[cmd |-> "DrawIndexed",
                               count |-> item.IndexCount]>> \o rest
                       ELSE rest
                  ELSE <<[cmd |-> "Draw", count |-> item.VertexCount]>>
                       \o rest

\* The draw calls RecordTransparentStage records
\* (VulkanRenderer.cpp:676-681): the stage is empty
TransparentStageDraws(RenderItems) == <<>>

\* One recording of both stages: the item list, and what each stage has
\* recorded ("none": the stage has not run)
StageCalls ==
    { [RenderItems |-> items, opaque |-> "none", transparent |-> "none"] :
        items \in StageItemLists }

StageInit ==
    /\ pc = "stage_opaque"
    /\ call \in StageCalls
    /\ ret = "host"
    /\ rt = RuntimeInit
    /\ sc = SwapchainInit
    /\ r = RendererInit
    /\ dev = DeviceInit
    /\ fr = FrameInit
    /\ hist = HistInit

\* VulkanRenderer.cpp:604-674
RecordOpaqueStage ==
    /\ pc = "stage_opaque"
    /\ call' = [call EXCEPT !.opaque = OpaqueStageDraws(call.RenderItems)]
    /\ pc' = "stage_transparent"
    /\ UNCHANGED <<ret, rt, sc, r, dev, fr, hist>>

\* VulkanRenderer.cpp:676-681
RecordTransparentStage ==
    /\ pc = "stage_transparent"
    /\ call' = [call EXCEPT
                  !.transparent = TransparentStageDraws(call.RenderItems)]
    /\ pc' = "stage_done"
    /\ UNCHANGED <<ret, rt, sc, r, dev, fr, hist>>

StageNext ==
    \/ RecordOpaqueStage
    \/ RecordTransparentStage

StageSpec == StageInit /\ [][StageNext]_vars

(***************************************************************************)
(* Selection of the swapchain settings in VulkanSwapchain::Create          *)
(* (VulkanSwapchain.cpp:91-143), for every surface report and request      *)
(***************************************************************************)
SurfaceDims == 0..MaxSurfaceDim

\* minImageExtent <= maxImageExtent in both dimensions
ExtentRanges ==
    { mm \in (SurfaceDims \X SurfaceDims) \X (SurfaceDims \X SurfaceDims) :
        mm[1][1] <= mm[2][1] /\ mm[1][2] <= mm[2][2] }

\* currentExtent is the special value or lies within the range
CurrentExtents(mm) ==
    {UINT32_MAX_EXTENT}
    \cup { e \in SurfaceDims \X SurfaceDims :
             /\ mm[1][1] <= e[1] /\ e[1] <= mm[2][1]
             /\ mm[1][2] <= e[2] /\ e[2] <= mm[2][2] }

\* The reports that differ in their extents (image counts fixed)
ExtentReports ==
    UNION { { [currentExtent |-> e, minImageExtent |-> mm[1],
               maxImageExtent |-> mm[2],
               minImageCount |-> 2, maxImageCount |-> 0] :
                 e \in CurrentExtents(mm) } : mm \in ExtentRanges }

\* The reports that differ in their image counts (extents fixed):
\* maxImageCount is 0 (no limit) or at least minImageCount
ImageCountReports ==
    { c \in { [currentExtent |-> UINT32_MAX_EXTENT,
               minImageExtent |-> <<1, 1>>, maxImageExtent |-> <<1, 1>>,
               minImageCount |-> n, maxImageCount |-> m] :
                 n \in 1..MaxSurfaceImages,
                 m \in 0..(MaxSurfaceImages + 1) } :
        c.maxImageCount = 0 \/ c.maxImageCount >= c.minImageCount }

PresentModes ==
    {"VK_PRESENT_MODE_FIFO_KHR", "VK_PRESENT_MODE_MAILBOX_KHR",
     "VK_PRESENT_MODE_IMMEDIATE_KHR", "VK_PRESENT_MODE_FIFO_RELAXED_KHR"}

\* Every order in which the elements of S can be enumerated
RECURSIVE Arrangements(_)
Arrangements(S) ==
    IF S = {} THEN { <<>> }
    ELSE UNION { { <<x>> \o q : q \in Arrangements(S \ {x}) } : x \in S }

\* What vkGetPhysicalDeviceSurfacePresentModesKHR can enumerate: FIFO is
\* offered by every surface, the other modes may or may not be.
PresentModeLists ==
    UNION { Arrangements(M \cup {"VK_PRESENT_MODE_FIFO_KHR"}) :
              M \in SUBSET (PresentModes \ {"VK_PRESENT_MODE_FIFO_KHR"}) }

\* The arguments and surface answers of one Create call, and its locals
\* presentMode, extent and imageCount, not yet assigned
SelectCall(caps, Width, Height, EnableVsync, presentModes) ==
    [ caps |-> caps, Width |-> Width, Height |-> Height,
      EnableVsync |-> EnableVsync, presentModes |-> presentModes,
      presentMode |-> "none", extent |-> "none", imageCount |-> "none" ]

SelectCalls ==
    { SelectCall(caps, Width, Height, FALSE, <<"VK_PRESENT_MODE_FIFO_KHR">>) :
        caps \in ExtentReports, Width \in 1..(MaxSurfaceDim + 1),
        Height \in 1..(MaxSurfaceDim + 1) }
    \cup
    { SelectCall(caps, 1, 1, FALSE, <<"VK_PRESENT_MODE_FIFO_KHR">>) :
        caps \in ImageCountReports }
    \cup
    { SelectCall([currentExtent |-> UINT32_MAX_EXTENT,
                  minImageExtent |-> <<1, 1>>, maxImageExtent |-> <<1, 1>>,
                  minImageCount |-> 2, maxImageCount |-> 0],
                 1, 1, EnableVsync, presentModes) :
        EnableVsync \in BOOLEAN, presentModes \in PresentModeLists }

SelectInit ==
    /\ pc = "sel_mode"
    /\ call \in SelectCalls
    /\ ret = "host"
    /\ rt = RuntimeInit
    /\ sc = SwapchainInit
    /\ r = RendererInit
    /\ dev = DeviceInit
    /\ fr = FrameInit
    /\ hist = HistInit

\* VulkanSwapchain.cpp:103-118
Create_SelectPresentMode ==
    /\ pc = "sel_mode"
    /\ call' = [call EXCEPT !.presentMode =
                   ChoosePresentMode(call.EnableVsync, call.presentModes)]
    /\ pc' = "sel_extent"
    /\ UNCHANGED <<ret, rt, sc, r, dev, fr, hist>>

\* VulkanSwapchain.cpp:120-135
Create_SelectExtent ==
    /\ pc = "sel_extent"
    /\ call' = [call EXCEPT !.extent =
                   ChooseExtent(call.caps, call.Width, call.Height)]
    /\ pc' = "sel_count"
    /\ UNCHANGED <<ret, rt, sc, r, dev, fr, hist>>

\* VulkanSwapchain.cpp:137-143
Create_SelectImageCount ==
    /\ pc = "sel_count"
    /\ call' = [call EXCEPT !.imageCount = ChooseImageCount(call.caps)]
    /\ pc' = "sel_done"
    /\ UNCHANGED <<ret, rt, sc, r, dev, fr, hist>>

SelectNext ==
    \/ Create_SelectPresentMode
    \/ Create_SelectExtent
    \/ Create_SelectImageCount

SelectSpec == SelectInit /\ [][SelectNext]_vars

(***************************************************************************)
(* Bootstrap of the instance, the device and the surface                   *)
(* (VulkanInstance.cpp, VulkanDevice.cpp, VulkanSurface.cpp) over the      *)
(* devices, queue families and layers the platform reports                 *)
(***************************************************************************)
\* VulkanDevice.cpp:35, the queue family index before one is found: all bits
\* set, written as the signed 32-bit integer with that pattern
UINT32_MAX == -1

ValidationLayer == "VK_LAYER_KHRONOS_validation"

DebugUtilsExtension == "VK_EXT_debug_utils"

\* VkPhysicalDeviceProperties::deviceType as PickPhysicalDevice reads it
DeviceTypes == {"DISCRETE_GPU", "INTEGRATED_GPU"}

\* A queue family: its VK_QUEUE_GRAPHICS_BIT and whether it can present to
\* the window's surface
QueueFamilies == [graphics : BOOLEAN, present : BOOLEAN]

PhysicalDevices(families) == [deviceType : DeviceTypes, Families : families]

\* What vkEnumeratePhysicalDevices reports: several devices with no or one
\* queue family, or one device with several queue families
EnumeratedDevices ==
    SeqsUpTo(PhysicalDevices({<<>>, <<[graphics |-> TRUE, present |-> TRUE]>>}),
             MaxDevices)
      \cup {<<d>> : d \in PhysicalDevices(SeqsUpTo(QueueFamilies, MaxFamilies))}

\* The layers vkEnumerateInstanceLayerProperties reports
AvailableLayers(c) == IF c.LayerAvailable THEN {ValidationLayer} ELSE {}

\* VulkanDevice.cpp:111-142; the position of the chosen device in the
\* enumeration, 0 for VK_NULL_HANDLE
PickPhysicalDevice_FirstDevice(Devices) ==
    IF Len(Devices) = 0 THEN 0 ELSE 1

PickPhysicalDevice(Devices) ==
    LET discrete == {i \in 1..Len(Devices) :
                        Devices[i].deviceType = "DISCRETE_GPU"}
    IN  IF Len(Devices) = 0 THEN 0
        ELSE IF discrete # {}
             THEN CHOOSE i \in discrete : \A j \in discrete : i <= j
             ELSE 1

\* VulkanDevice.cpp:144-165; the index of the first family with the graphics
\* bit, the field's old value when there is none
FindGraphicsQueueFamily(Families, old) ==
    LET graphics == {i \in 1..Len(Families) : Families[i].graphics}
    IN  IF graphics # {}
        THEN (CHOOSE i \in graphics : \A j \in graphics : i <= j) - 1
        ELSE old

BootCalls ==
    [DebugBuild : BOOLEAN, LayerAvailable : BOOLEAN,
     LoaderRejectsDeviceLayer : BOOLEAN, Devices : EnumeratedDevices,
     ValidationEnabled : {FALSE}, InstanceLayers : {{}},
     InstanceExtensions : {{}}, Instance : {FALSE},
     DebugMessenger : {FALSE}, PhysicalDevice : {0},
     GraphicsQueueFamily : {UINT32_MAX}, DeviceLayers : {{}},
     Device : {FALSE}, Surface : {FALSE}]

\* VulkanInstance.cpp:86-96, VulkanDevice.cpp:31-39, VulkanSurface.cpp:33-37
BootInit ==
    /\ pc = "boot_instance"
    /\ call \in BootCalls
    /\ ret = "host"
    /\ rt = RuntimeInit
    /\ sc = SwapchainInit
    /\ r = RendererInit
    /\ dev = DeviceInit
    /\ fr = FrameInit
    /\ hist = HistInit

\* VulkanInstance.cpp:86-96 (constructor) and 205-255: validation is on in a
\* _DEBUG build, switched off when the layer is not reported; the debug
\* utilities extension and the layer are requested only while it is on;
\* vkCreateInstance rejects a layer that is not present
Boot_CreateInstance ==
    /\ pc = "boot_instance"
    /\ LET enabled == call.DebugBuild /\ ValidationLayer \in AvailableLayers(call)
           layers == IF enabled THEN {ValidationLayer} ELSE {}
           exts == IF enabled THEN {DebugUtilsExtension} ELSE {}
           ok == layers \subseteq AvailableLayers(call)
       IN  /\ call' = [call EXCEPT !.ValidationEnabled = enabled,
                                   !.InstanceLayers = layers,
                                   !.InstanceExtensions = exts,
                                   !.Instance = ok]
           /\ pc' = IF ok THEN "boot_messenger" ELSE "boot_failed"
    /\ UNCHANGED <<ret, rt, sc, r, dev, fr, hist>>

\* VulkanInstance.cpp:104-124, 257-283 and 50-67: the messenger is set up
\* only while validation is on; its creation function is loaded from the
\* instance and is there when the extension was enabled
Boot_SetupDebugMessenger ==
    /\ pc = "boot_messenger"
    /\ IF call.ValidationEnabled
       THEN LET ok == DebugUtilsExtension \in call.InstanceExtensions
            IN  /\ call' = [call EXCEPT !.DebugMessenger = ok]
                /\ pc' = IF ok THEN "boot_pick" ELSE "boot_failed"
       ELSE /\ call' = call
            /\ pc' = "boot_pick"
    /\ UNCHANGED <<ret, rt, sc, r, dev, fr, hist>>

\* VulkanDevice.cpp:46-54, 111-142
Boot_PickPhysicalDevice ==
    /\ pc = "boot_pick"
    /\ LET picked == PickPhysicalDevice(call.Devices)
       IN  /\ call' = [call EXCEPT !.PhysicalDevice = picked]
           /\ pc' = IF picked # 0 THEN "boot_family" ELSE "boot_failed"
    /\ UNCHANGED <<ret, rt, sc, r, dev, fr, hist>>

\* VulkanDevice.cpp:56-61, 144-165
Boot_FindGraphicsQueueFamily ==
    /\ pc = "boot_family"
    /\ LET family == FindGraphicsQueueFamily(
                         call.Devices[call.PhysicalDevice].Families,
                         call.GraphicsQueueFamily)
       IN  /\ call' = [call EXCEPT !.GraphicsQueueFamily = family]
           /\ pc' = IF family # UINT32_MAX THEN "boot_device" ELSE "boot_failed"
    /\ UNCHANGED <<ret, rt, sc, r, dev, fr, hist>>

\* VulkanDevice.cpp:63-69, 167-218: a _DEBUG build asks the device for the
\* validation layer whether or not the instance kept validation on; a loader
\* either ignores a device layer that is not present or rejects the call
Boot_CreateLogicalDevice ==
    /\ pc = "boot_device"
    /\ LET layers == IF call.DebugBuild THEN {ValidationLayer} ELSE {}
           ok == \/ layers \subseteq AvailableLayers(call)
                 \/ ~call.LoaderRejectsDeviceLayer
       IN  /\ call' = [call EXCEPT !.DeviceLayers = layers, !.Device = ok]
           /\ pc' = IF ok THEN "boot_surface" ELSE "boot_failed"
    /\ UNCHANGED <<ret, rt, sc, r, dev, fr, hist>>

\* VulkanSurface.cpp:51-76, EngineRuntime.cpp:359
Boot_SurfaceCreate ==
    /\ pc = "boot_surface"
    /\ call' = [call EXCEPT !.Surface = TRUE]
    /\ pc' = "boot_ok"
    /\ UNCHANGED <<ret, rt, sc, r, dev, fr, hist>>

BootNext ==
    \/ Boot_CreateInstance
    \/ Boot_SetupDebugMessenger
    \/ Boot_PickPhysicalDevice
    \/ Boot_FindGraphicsQueueFamily
    \/ Boot_CreateLogicalDevice
    \/ Boot_SurfaceCreate

BootSpec == BootInit /\ [][BootNext]_vars

(***************************************************************************)
(* The skybox catalog (SkyboxRenderer.cpp:61-77, 640-708, 897-1008):       *)
(* strings are sequences of characters, the catalog a sequence of lines    *)
(***************************************************************************)
\* std::isspace over the characters the catalogs below are written with
WhiteSpace == {" ", "\t"}

\* SkyboxRenderer.cpp:61-77
RECURSIVE TrimLeft(_)
TrimLeft(Text) ==
    IF Text # <<>> /\ Head(Text) \in WhiteSpace THEN TrimLeft(Tail(Text))
    ELSE Text

RECURSIVE TrimRight(_)
TrimRight(Text) ==
    IF Text # <<>> /\ Text[Len(Text)] \in WhiteSpace
    THEN TrimRight(SubSeq(Text, 1, Len(Text) - 1))
    ELSE Text

Trim(Text) == TrimRight(TrimLeft(Text))

\* std::string::find of one character: its first position counted from 1,
\* 0 for npos
Find(Text, c) ==
    LET at == {i \in 1..Len(Text) : Text[i] = c}
    IN  IF at = {} THEN 0 ELSE CHOOSE i \in at : \A j \in at : i <= j

\* The tokens std::getline(tokenizer, token, ';') yields one after the other
\* (SkyboxRenderer.cpp:953-956): nothing is yielded once the text is used up
RECURSIVE Tokens(_)
Tokens(Text) ==
    IF Text = <<>> THEN <<>>
    ELSE LET at == Find(Text, ";")
         IN  IF at = 0 THEN <<Text>>
             ELSE <<SubSeq(Text, 1, at - 1)>>
                    \o Tokens(SubSeq(Text, at + 1, Len(Text)))

DigitChars == <<"0", "1", "2", "3", "4", "5", "6", "7", "8", "9">>

DigitValue(c) == (CHOOSE i \in 1..Len(DigitChars) : DigitChars[i] = c) - 1

IsDigit(c) == \E i \in 1..Len(DigitChars) : DigitChars[i] = c

\* std::strtoul(text, &endPtr, 10) on a trimmed text without a sign: the
\* value of the leading digits and how many characters were consumed
RECURSIVE Strtoul(_, _, _)
Strtoul(Text, value, used) ==
    IF Text # <<>> /\ IsDigit(Head(Text))
    THEN Strtoul(Tail(Text), 10 * value + DigitValue(Head(Text)), used + 1)
    ELSE [value |-> value, used |-> used]

SizePrefix == <<"s", "i", "z", "e", "=">>

\* part.rfind("size=", 0) == 0
HasSizePrefix(part) ==
    Len(part) >= Len(SizePrefix) /\ SubSeq(part, 1, Len(SizePrefix)) = SizePrefix

\* The directory LocateAssetsReadyRoot found
AssetsReadyRoot == <<"R">>

\* SkyboxRenderer.cpp:966-973: a relative path is put under the assets root
ResolveHdrPath(part) ==
    IF Head(part) = "/" THEN part ELSE AssetsReadyRoot \o <<"/">> \o part

\* SkyboxRenderer.h:83-88
DefaultSize == 512

NewDefinition(key) == [Name |-> key, HdrPath |-> <<>>, Size |-> DefaultSize]

\* SkyboxRenderer.cpp:956-987, one token of an entry's value
ParseToken_NoSize(definition, firstToken, token) ==
    LET part == Trim(token)
    IN  IF part = <<>> THEN <<definition, firstToken>>
        ELSE IF firstToken
             THEN <<[definition EXCEPT !.HdrPath = ResolveHdrPath(part)], FALSE>>
             ELSE <<definition, firstToken>>

ParseToken(definition, firstToken, token) ==
    LET part == Trim(token)
    IN  IF part = <<>> THEN <<definition, firstToken>>
        ELSE IF firstToken
             THEN <<[definition EXCEPT !.HdrPath = ResolveHdrPath(part)], FALSE>>
             ELSE IF HasSizePrefix(part)
                  THEN LET sizeStr == Trim(SubSeq(part, Len(SizePrefix) + 1,
                                                  Len(part)))
                           parsed == Strtoul(sizeStr, 0, 0)
                       IN  IF sizeStr # <<>> /\ parsed.used # 0
                           THEN <<[definition EXCEPT !.Size = parsed.value],
                                  firstToken>>
                           ELSE <<definition, firstToken>>
                  ELSE <<definition, firstToken>>

RECURSIVE ParseTokens(_, _, _)
ParseTokens(definition, firstToken, tokens) ==
    IF tokens = <<>> THEN definition
    ELSE LET next == ParseToken(definition, firstToken, Head(tokens))
         IN  ParseTokens(next[1], next[2], Tail(tokens))

DefaultKey == <<"d", "e", "f", "a", "u", "l", "t">>

\* SkyboxRenderer.cpp:917-994, the body of the loop over the lines: the
\* catalog read so far and one more line
ReadLine(cat, line) ==
    LET trimmed == Trim(line)
        equalPos == Find(trimmed, "=")
        key == Trim(SubSeq(trimmed, 1, equalPos - 1))
        value == Trim(SubSeq(trimmed, equalPos + 1, Len(trimmed)))
        definition == ParseTokens(NewDefinition(key), TRUE, Tokens(value))
    IN  IF trimmed = <<>> THEN cat
        ELSE IF trimmed[1] = "#" THEN cat
        ELSE IF equalPos = 0 THEN cat
        ELSE IF key = <<>> \/ value = <<>> THEN cat
        ELSE IF key = DefaultKey THEN [cat EXCEPT !.DefaultSkyboxName = value]
        ELSE IF definition.HdrPath # <<>>
             THEN [cat EXCEPT !.Skyboxes =
                      [n \in DOMAIN cat.Skyboxes \cup {key} |->
                          IF n = key THEN definition ELSE cat.Skyboxes[n]]]
             ELSE cat

RECURSIVE ReadLines(_, _)
ReadLines(cat, lines) ==
    IF lines = <<>> THEN cat ELSE ReadLines(ReadLine(cat, Head(lines)), Tail(lines))

\* SkyboxRenderer.cpp:899-900
EmptyCatalog == [Skyboxes |-> <<>>, DefaultSkyboxName |-> <<>>]

\* The lines catalogs are written with
DefaultA == <<"d","e","f","a","u","l","t"," ","="," ","a">>
DefaultB == <<"d","e","f","a","u","l","t","=","b">>
EntryA == <<"a"," ","="," ","s",".","h",";"," ","s","i","z","e","=","1","6">>
EntryANoSize == <<"a","=","t",".","h">>
EntryB == <<" ","b"," ","="," ","/","t",".","h"," ",";","s","i","z","e","=","8"," ">>
EntryBBadSize == <<"b"," ","="," ","s",".","h",";"," ","s","i","z","e","=","x">>
CommentLine == <<"#"," ","a"," ","="," ","t",".","h">>
BlankLine == <<" "," ">>
NoEqualsLine == <<"a"," ","s",".","h">>
EmptyKeyLine == <<"="," ","s",".","h">>
EmptyValueLine == <<"a"," ","=">>

CatalogLines ==
    {DefaultA, DefaultB, EntryA, EntryANoSize, EntryB, EntryBBadSize,
     CommentLine, BlankLine, NoEqualsLine, EmptyKeyLine, EmptyValueLine}

NullDefinition == [Name |-> <<>>, HdrPath |-> <<>>, Size |-> 0]

CatalogCalls ==
    [FileOpens : BOOLEAN, Lines : SeqsUpTo(CatalogLines, MaxLines),
     Skyboxes : {<<>>}, DefaultSkyboxName : {<<>>},
     ActiveSkyboxName : {<<>>}, Active : {NullDefinition}]

CatalogInit ==
    /\ pc = "cat_load"
    /\ call \in CatalogCalls
    /\ ret = "host"
    /\ rt = RuntimeInit
    /\ sc = SwapchainInit
    /\ r = RendererInit
    /\ dev = DeviceInit
    /\ fr = FrameInit
    /\ hist = HistInit

\* SkyboxRenderer.cpp:655-659, 897-1008: the whole of LoadCatalog; the first
\* element of the unordered map is any of its elements
LoadCatalog ==
    /\ pc = "cat_load"
    /\ IF ~call.FileOpens
       THEN /\ call' = call
            /\ pc' = "cat_failed"
       ELSE LET cat == ReadLines(EmptyCatalog, call.Lines)
            IN  IF DOMAIN cat.Skyboxes = {}
                THEN /\ call' = [call EXCEPT
                                   !.DefaultSkyboxName = cat.DefaultSkyboxName]
                     /\ pc' = "cat_failed"
                ELSE /\ \E first \in DOMAIN cat.Skyboxes :
                          call' = [call EXCEPT
                             !.Skyboxes = cat.Skyboxes,
                             !.DefaultSkyboxName =
                                IF \/ cat.DefaultSkyboxName = <<>>
                                   \/ cat.DefaultSkyboxName
                                         \notin DOMAIN cat.Skyboxes
                                THEN first
                                ELSE cat.DefaultSkyboxName]
                     /\ pc' = "cat_resolve"
    /\ UNCHANGED <<ret, rt, sc, r, dev, fr, hist>>

\* SkyboxRenderer.cpp:682-688
Create_ResolveActiveSkybox ==
    /\ pc = "cat_resolve"
    /\ IF call.DefaultSkyboxName \in DOMAIN call.Skyboxes
       THEN /\ call' = [call EXCEPT
                          !.ActiveSkyboxName = call.DefaultSkyboxName,
                          !.Active = call.Skyboxes[call.DefaultSkyboxName]]
            /\ pc' = "cat_ok"
       ELSE /\ call' = [call EXCEPT
                          !.ActiveSkyboxName = call.DefaultSkyboxName]
            /\ pc' = "cat_failed"
    /\ UNCHANGED <<ret, rt, sc, r, dev, fr, hist>>

CatalogNext ==
    \/ LoadCatalog
    \/ Create_ResolveActiveSkybox

CatalogSpec == CatalogInit /\ [][CatalogNext]_vars

(***************************************************************************)
(* Cubemap generation (SkyboxRenderer.cpp:334-409): the direction sampled  *)
(* for every pixel of every face.  Coordinates are kept exact as integer   *)
(* numerators over the denominator FaceSize.                               *)
(***************************************************************************)
FaceSizes == 1..MaxFaceSize

\* SkyboxRenderer.cpp:354-357: a = 2 * (x + 0.5) / FaceSize - 1, times FaceSize
FaceCoordinate(x, FaceSize) == 2 * x + 1 - FaceSize

\* SkyboxRenderer.cpp:359-386; one stands for 1.0f in the same units
FaceDirection_YZSwapped(face, a, b, one) ==
    CASE face = 0 -> <<one, -b, -a>>
      [] face = 1 -> <<-one, -b, a>>
      [] face = 2 -> <<a, -b, one>>
      [] face = 3 -> <<-a, -b, -one>>
      [] face = 4 -> <<a, one, b>>
      [] OTHER -> <<a, -one, -b>>

FaceDirection(face, a, b, one) ==
    CASE face = 0 -> <<one, -b, -a>>
      [] face = 1 -> <<-one, -b, a>>
      [] face = 2 -> <<a, one, b>>
      [] face = 3 -> <<a, -one, -b>>
      [] face = 4 -> <<a, -b, one>>
      [] OTHER -> <<-a, -b, -one>>

\* MathVector.h:68-74: the vector v / sqrt(len2), kept as the pair
Normalized(v) ==
    LET len2 == v[1] * v[1] + v[2] * v[2] + v[3] * v[3]
    IN  IF len2 = 0 THEN [v |-> <<0, 0, 0>>, len2 |-> 1]
        ELSE [v |-> v, len2 |-> len2]

CubemapCalls ==
    [FaceSize : FaceSizes, face : {0}, y : {0}, x : {0}, a : {0}, b : {0},
     dir : {Normalized(<<0, 0, 0>>)}]

CubemapInit ==
    /\ pc = "cube_sample"
    /\ call \in CubemapCalls
    /\ ret = "host"
    /\ rt = RuntimeInit
    /\ sc = SwapchainInit
    /\ r = RendererInit
    /\ dev = DeviceInit
    /\ fr = FrameInit
    /\ hist = HistInit

\* SkyboxRenderer.cpp:354-388, the direction of the pixel (x, y) of the face
ConvertToCubemap_Direction ==
    /\ pc = "cube_sample"
    /\ LET a == FaceCoordinate(call.x, call.FaceSize)
           b == FaceCoordinate(call.y, call.FaceSize)
       IN  call' = [call EXCEPT
                      !.a = a, !.b = b,
                      !.dir = Normalized(FaceDirection(call.face, a, b,
                                                       call.FaceSize))]
    /\ pc' = "cube_store"
    /\ UNCHANGED <<ret, rt, sc, r, dev, fr, hist>>

\* SkyboxRenderer.cpp:347-352, 395-405: the pixel is stored and the loops
\* over x, y and face move on
ConvertToCubemap_NextPixel ==
    /\ pc = "cube_store"
    /\ IF call.x + 1 < call.FaceSize
       THEN /\ call' = [call EXCEPT !.x = @ + 1]
            /\ pc' = "cube_sample"
       ELSE IF call.y + 1 < call.FaceSize
       THEN /\ call' = [call EXCEPT !.x = 0, !.y = @ + 1]
            /\ pc' = "cube_sample"
       ELSE IF call.face + 1 < 6
       THEN /\ call' = [call EXCEPT !.x = 0, !.y = 0, !.face = @ + 1]
            /\ pc' = "cube_sample"
       ELSE /\ call' = call
            /\ pc' = "cube_done"
    /\ UNCHANGED <<ret, rt, sc, r, dev, fr, hist>>

CubemapNext ==
    \/ ConvertToCubemap_Direction
    \/ ConvertToCubemap_NextPixel

CubemapSpec == CubemapInit /\ [][CubemapNext]_vars

(***************************************************************************)
(* Sparse-set stores and the scene (ComponentStorage.h, TransformSystem.cpp,*)
(* Scene.h, Scene.cpp).  Entity ids and packed indices count from 0 as in  *)
(* the code; a vector element i is the sequence element i + 1.             *)
(***************************************************************************)
EntityIds == 0..(MaxIds - 1)

SceneIds == 0..(MaxEntities - 1)

\* ComponentStorage.h:178, TransformSystem.h:73, kInvalidComponentIndex
kInvalidIndex == UINT32_MAX

\* The value a client writes into the component of an entity
ValueOf(id) == id + 10

\* std::vector::resize(n, fill) where n exceeds the size, pop_back
Resized(v, n, fill) == v \o [i \in 1..(n - Len(v)) |-> fill]

PopBack(v) == SubSeq(v, 1, Len(v) - 1)

\* ComponentStorage.h:161-172, TransformSystem.cpp:246-256, Scene.cpp:261-280
GetIndex(s, id) ==
    IF id >= Len(s.indexByEntity) THEN kInvalidIndex ELSE s.indexByEntity[id + 1]

\* ComponentStorage.h:147-158, TransformSystem.cpp:126-130
EnsureSize(s, id) ==
    IF id < Len(s.indexByEntity) THEN s
    ELSE [s EXCEPT !.indexByEntity = Resized(@, id + 1, kInvalidIndex)]

\* ComponentStorage.h:133-137, TransformSystem.cpp:181-185
Has(s, id) == GetIndex(s, id) # kInvalidIndex

\* ComponentStorage.h:54-65; 0 stands for nullptr
Get(s, id) ==
    IF GetIndex(s, id) = kInvalidIndex THEN 0
    ELSE s.components[GetIndex(s, id) + 1]

EmptyStorage == [components |-> <<>>, entityIds |-> <<>>, indexByEntity |-> <<>>]

\* ComponentStorage.h:82-102 and Scene.cpp:150-191 (AddMesh, AddMaterial,
\* after the scene's EnsureSize), then the client's write through the
\* returned reference
Add(s, id) ==
    LET t == EnsureSize(s, id)
    IN  IF GetIndex(t, id) # kInvalidIndex
        THEN [t EXCEPT !.components[GetIndex(t, id) + 1] = ValueOf(id)]
        ELSE [components |-> Append(t.components, ValueOf(id)),
              entityIds |-> Append(t.entityIds, id),
              indexByEntity |->
                 [t.indexByEntity EXCEPT ![id + 1] = Len(t.components)]]

\* ComponentStorage.h:105-130 and Scene.cpp:282-329 (RemoveMeshComponent,
\* RemoveMaterialComponent)
Remove_ComponentNotMoved(s, id) ==
    LET index == GetIndex(s, id)
        lastIndex == Len(s.components) - 1
        moved == IF index # lastIndex
                 THEN [s EXCEPT
                         !.entityIds[index + 1] = s.entityIds[lastIndex + 1],
                         !.indexByEntity[s.entityIds[lastIndex + 1] + 1] = index]
                 ELSE s
    IN  IF index = kInvalidIndex THEN s
        ELSE [components |-> PopBack(moved.components),
              entityIds |-> PopBack(moved.entityIds),
              indexByEntity |->
                 [moved.indexByEntity EXCEPT ![id + 1] = kInvalidIndex]]

Remove(s, id) ==
    LET index == GetIndex(s, id)
        lastIndex == Len(s.components) - 1
        moved == IF index # lastIndex
                 THEN [s EXCEPT
                         !.components[index + 1] = s.components[lastIndex + 1],
                         !.entityIds[index + 1] = s.entityIds[lastIndex + 1],
                         !.indexByEntity[s.entityIds[lastIndex + 1] + 1] = index]
                 ELSE s
    IN  IF index = kInvalidIndex THEN s
        ELSE [components |-> PopBack(moved.components),
              entityIds |-> PopBack(moved.entityIds),
              indexByEntity |->
                 [moved.indexByEntity EXCEPT ![id + 1] = kInvalidIndex]]

\* TransformSystem.cpp:111-114
EmptyCache ==
    [entityIds |-> <<>>, modelCache |-> <<>>, dirty |-> <<>>,
     indexByEntity |-> <<>>]

\* TransformSystem.cpp:233-243; the matrix of a transform value
BuildModelMatrix(transform) == <<"M", transform>>

\* TransformSystem.cpp:123-147
AddTransform(t, id) ==
    LET u == EnsureSize(t, id)
    IN  IF u.indexByEntity[id + 1] # kInvalidIndex
        THEN [u EXCEPT !.dirty[u.indexByEntity[id + 1] + 1] = 1]
        ELSE [entityIds |-> Append(u.entityIds, id),
              modelCache |-> Append(u.modelCache, "Identity"),
              dirty |-> Append(u.dirty, 1),
              indexByEntity |->
                 [u.indexByEntity EXCEPT ![id + 1] = Len(u.modelCache)]]

\* TransformSystem.cpp:150-178
RemoveTransform_DirtyNotPopped(t, id) ==
    LET index == GetIndex(t, id)
        lastIndex == Len(t.modelCache) - 1
        moved == IF index # lastIndex
                 THEN [t EXCEPT
                         !.entityIds[index + 1] = t.entityIds[lastIndex + 1],
                         !.modelCache[index + 1] = t.modelCache[lastIndex + 1],
                         !.dirty[index + 1] = t.dirty[lastIndex + 1],
                         !.indexByEntity[t.entityIds[lastIndex + 1] + 1] = index]
                 ELSE t
    IN  IF index = kInvalidIndex THEN t
        ELSE [entityIds |-> PopBack(moved.entityIds),
              modelCache |-> PopBack(moved.modelCache),
              dirty |-> moved.dirty,
              indexByEntity |->
                 [moved.indexByEntity EXCEPT ![id + 1] = kInvalidIndex]]

RemoveTransform(t, id) ==
    LET index == GetIndex(t, id)
        lastIndex == Len(t.modelCache) - 1
        moved == IF index # lastIndex
                 THEN [t EXCEPT
                         !.entityIds[index + 1] = t.entityIds[lastIndex + 1],
                         !.modelCache[index + 1] = t.modelCache[lastIndex + 1],
                         !.dirty[index + 1] = t.dirty[lastIndex + 1],
                         !.indexByEntity[t.entityIds[lastIndex + 1] + 1] = index]
                 ELSE t
    IN  IF index = kInvalidIndex THEN t
        ELSE [entityIds |-> PopBack(moved.entityIds),
              modelCache |-> PopBack(moved.modelCache),
              dirty |-> PopBack(moved.dirty),
              indexByEntity |->
                 [moved.indexByEntity EXCEPT ![id + 1] = kInvalidIndex]]

\* TransformSystem.cpp:211-221
MarkDirty(t, id) ==
    IF GetIndex(t, id) = kInvalidIndex THEN t
    ELSE [t EXCEPT !.dirty[GetIndex(t, id) + 1] = 1]

\* TransformSystem.cpp:188-208: the cache after the call and the matrix
\* returned
GetModelMatrix(t, id, transform) ==
    LET index == GetIndex(t, id)
        rebuilt == IF t.dirty[index + 1] # 0
                   THEN [t EXCEPT
                           !.modelCache[index + 1] = BuildModelMatrix(transform),
                           !.dirty[index + 1] = 0]
                   ELSE t
    IN  IF index = kInvalidIndex
        THEN [cache |-> t, matrix |-> "Identity"]
        ELSE [cache |-> rebuilt, matrix |-> rebuilt.modelCache[index + 1]]

\* Scene.cpp:41-44, Scene.h:116-121
SceneInit_Fields ==
    [alive |-> <<>>, transforms |-> EmptyStorage, cache |-> EmptyCache,
     meshes |-> EmptyStorage, materials |-> EmptyStorage, outItems |-> <<>>]

\* Scene.cpp:239-257: the id-indexed vectors of the scene grow together
Scene_EnsureSize(s, id) ==
    IF id < Len(s.alive) THEN s
    ELSE [s EXCEPT
            !.alive = Resized(@, id + 1, FALSE),
            !.meshes = EnsureSize(@, id),
            !.materials = EnsureSize(@, id),
            !.transforms = EnsureSize(@, id),
            !.cache = EnsureSize(@, id)]

\* Scene.cpp:53-62
CreateEntity(s) ==
    [Scene_EnsureSize(s, Len(s.alive)) EXCEPT !.alive[Len(s.alive) + 1] = TRUE]

\* Scene.h:205-222 for the transform component: the component's storage and
\* the cache entry go together
RemoveTransformComponent(s, id) ==
    [s EXCEPT !.transforms = Remove(@, id), !.cache = RemoveTransform(@, id)]

\* Scene.cpp:65-82
DestroyEntity(s, id) ==
    IF ~(id < Len(s.alive)) THEN s
    ELSE LET dead == [s EXCEPT !.alive[id + 1] = FALSE]
             noTransform == RemoveTransformComponent(dead, id)
         IN  [noTransform EXCEPT !.meshes = Remove(@, id),
                                 !.materials = Remove(@, id)]

\* Scene.cpp:139-148 with Scene.h:185-201: storage entry, cache entry, dirty
Scene_AddTransform(s, id) ==
    LET t == Scene_EnsureSize(s, id)
    IN  [t EXCEPT !.transforms = Add(@, id),
                  !.cache = MarkDirty(AddTransform(@, id), id)]

\* Scene.cpp:150-169
Scene_AddMesh(s, id) ==
    [Scene_EnsureSize(s, id) EXCEPT !.meshes = Add(@, id)]

\* Scene.cpp:172-191
Scene_AddMaterial(s, id) ==
    [Scene_EnsureSize(s, id) EXCEPT !.materials = Add(@, id)]

\* Scene.cpp:194-237, the loop from entity id on: the items pushed and the
\* cache the matrix lookups leave
RECURSIVE RenderListFrom(_, _, _, _)
RenderListFrom_AliveNotChecked(s, id, items, cache) ==
    IF ~(id < Len(s.alive)) THEN [outItems |-> items, cache |-> cache]
    ELSE IF \/ ~Has(s.transforms, id)
            \/ GetIndex(s.meshes, id) = kInvalidIndex
            \/ GetIndex(s.materials, id) = kInvalidIndex
         THEN RenderListFrom(s, id + 1, items, cache)
         ELSE LET model == GetModelMatrix(cache, id, Get(s.transforms, id))
              IN  RenderListFrom(s, id + 1,
                     Append(items, [MeshPtr |-> Get(s.meshes, id),
                                    MaterialPtr |-> Get(s.materials, id),
                                    Model |-> model.matrix]),
                     model.cache)

RenderListFrom(s, id, items, cache) ==
    IF ~(id < Len(s.alive)) THEN [outItems |-> items, cache |-> cache]
    ELSE IF \/ ~s.alive[id + 1]
            \/ ~Has(s.transforms, id)
            \/ GetIndex(s.meshes, id) = kInvalidIndex
            \/ GetIndex(s.materials, id) = kInvalidIndex
         THEN RenderListFrom(s, id + 1, items, cache)
         ELSE LET model == GetModelMatrix(cache, id, Get(s.transforms, id))
              IN  RenderListFrom(s, id + 1,
                     Append(items, [MeshPtr |-> Get(s.meshes, id),
                                    MaterialPtr |-> Get(s.materials, id),
                                    Model |-> model.matrix]),
                     model.cache)

\* Scene.cpp:194-237: the list is cleared, then filled
BuildRenderList(s) ==
    LET built == RenderListFrom(s, 0, <<>>, s.cache)
    IN  [s EXCEPT !.outItems = built.outItems, !.cache = built.cache]

\* The stores exercised on their own: a component storage, a transform
\* cache, the scene's packed mesh and material arrays
StoreKinds == {"ComponentStorage", "TransformSystem", "SceneArrays"}

SceneCalls(kinds) == [kind : kinds, scene : {SceneInit_Fields}, destroyed : {{}}]

StoreInit ==
    /\ pc = "scene"
    /\ call \in SceneCalls(StoreKinds)
    /\ ret = "host"
    /\ rt = RuntimeInit
    /\ sc = SwapchainInit
    /\ r = RendererInit
    /\ dev = DeviceInit
    /\ fr = FrameInit
    /\ hist = HistInit

SceneSpecInit ==
    /\ pc = "scene"
    /\ call \in SceneCalls({"Scene"})
    /\ ret = "host"
    /\ rt = RuntimeInit
    /\ sc = SwapchainInit
    /\ r = RendererInit
    /\ dev = DeviceInit
    /\ fr = FrameInit
    /\ hist = HistInit

SceneStep(kind, scene) ==
    /\ pc = "scene"
    /\ call.kind = kind
    /\ call' = [call EXCEPT !.scene = scene]
    /\ UNCHANGED <<pc, ret, rt, sc, r, dev, fr, hist>>

\* ComponentStorage<T>::Add and ::Remove on their own
Storage_Add ==
    \E id \in EntityIds :
       SceneStep("ComponentStorage",
                 [call.scene EXCEPT !.transforms = Add(@, id)])

Storage_Remove ==
    \E id \in EntityIds :
       SceneStep("ComponentStorage",
                 [call.scene EXCEPT !.transforms = Remove(@, id)])

\* The calls on a TransformSystem on its own
Cache_AddTransform ==
    \E id \in EntityIds :
       SceneStep("TransformSystem",
                 [call.scene EXCEPT !.cache = AddTransform(@, id)])

Cache_RemoveTransform ==
    \E id \in EntityIds :
       SceneStep("TransformSystem",
                 [call.scene EXCEPT !.cache = RemoveTransform(@, id)])

Cache_MarkDirty ==
    \E id \in EntityIds :
       SceneStep("TransformSystem",
                 [call.scene EXCEPT !.cache = MarkDirty(@, id)])

Cache_GetModelMatrix ==
    \E id \in EntityIds :
       SceneStep("TransformSystem",
                 [call.scene EXCEPT
                    !.cache = GetModelMatrix(@, id, ValueOf(id)).cache])

\* The calls on a Scene
Scene_CreateEntity ==
    /\ Len(call.scene.alive) < MaxEntities
    /\ SceneStep("Scene", CreateEntity(call.scene))

\* call.destroyed remembers the entities that were destroyed while alive
Scene_DestroyEntity ==
    /\ pc = "scene"
    /\ call.kind = "Scene"
    /\ \E id \in SceneIds :
          call' = [call EXCEPT
                     !.scene = DestroyEntity(@, id),
                     !.destroyed =
                        IF id < Len(call.scene.alive) /\ call.scene.alive[id + 1]
                        THEN @ \cup {id} ELSE @]
    /\ UNCHANGED <<pc, ret, rt, sc, r, dev, fr, hist>>

Scene_AddComponents ==
    \E id \in SceneIds :
       \/ SceneStep("Scene", Scene_AddTransform(call.scene, id))
       \/ SceneStep("Scene", Scene_AddMesh(call.scene, id))
       \/ SceneStep("Scene", Scene_AddMaterial(call.scene, id))

Scene_RemoveTransformComponent ==
    \E id \in SceneIds :
       SceneStep("Scene", RemoveTransformComponent(call.scene, id))

Scene_BuildRenderList ==
    SceneStep("Scene", BuildRenderList(call.scene))

\* Scene::AddMesh / AddMaterial and Scene::RemoveMeshComponent /
\* RemoveMaterialComponent on the scene's packed arrays
SceneArrays_Add ==
    \E id \in EntityIds :
       \/ SceneStep("SceneArrays", Scene_AddMesh(call.scene, id))
       \/ SceneStep("SceneArrays", Scene_AddMaterial(call.scene, id))

SceneArrays_Remove ==
    \E id \in EntityIds :
       \/ SceneStep("SceneArrays", [call.scene EXCEPT !.meshes = Remove(@, id)])
       \/ SceneStep("SceneArrays",
                    [call.scene EXCEPT !.materials = Remove(@, id)])

StoreNext ==
    \/ Storage_Add
    \/ Storage_Remove
    \/ Cache_AddTransform
    \/ Cache_RemoveTransform
    \/ Cache_MarkDirty
    \/ Cache_GetModelMatrix
    \/ SceneArrays_Add
    \/ SceneArrays_Remove

StoreSpec == StoreInit /\ [][StoreNext]_vars

SceneNext ==
    \/ Scene_CreateEntity
    \/ Scene_DestroyEntity
    \/ Scene_AddComponents
    \/ Scene_RemoveTransformComponent
    \/ Scene_BuildRenderList

SceneSpec == SceneSpecInit /\ [][SceneNext]_vars

(***************************************************************************)
(* The editor's main from the point its scope guard is armed               *)
(* (Main.cpp:48-85, 355-533)                                               *)
(***************************************************************************)
\* Main.cpp:356-396, the guard's callback with every created flag set: what
\* it waits for and destroys, in order
CleanupCalls ==
    <<"vkDeviceWaitIdle", "renderer", "renderPass", "swapchain", "device",
      "surface", "instance", "window">>

\* Main.cpp:54-59, 352-356: every resource is created and the guard is armed
MainInit ==
    /\ pc = "main_first_frame"
    /\ call = [Active |-> TRUE, cleanupRuns |-> 0, cleaned |-> <<>>,
               frames |-> 0, minimized |-> FALSE, exit |-> "none"]
    /\ ret = "host"
    /\ rt = RuntimeInit
    /\ sc = SwapchainInit
    /\ r = RendererInit
    /\ dev = DeviceInit
    /\ fr = FrameInit
    /\ hist = HistInit

\* Main.cpp:399-427: the scene and the render list are built and the first
\* frame is drawn; an allocation of the list may throw
Main_FirstFrame ==
    /\ pc = "main_first_frame"
    /\ \/ pc' = "main_loop" /\ call' = [call EXCEPT !.frames = 1]
       \/ pc' = "main_throw" /\ call' = call
    /\ UNCHANGED <<ret, rt, sc, r, dev, fr, hist>>

\* Main.cpp:430: while (!window.ShouldClose())
Main_LoopCondition ==
    /\ pc = "main_loop"
    /\ \/ call.frames < MaxLoops /\ pc' = "main_body"
       \/ pc' = "main_release"
    /\ UNCHANGED <<ret, rt, sc, r, dev, fr, call, hist>>

\* Main.cpp:432-526: one iteration; a resize may leave a zero extent, which
\* skips the frame; building the render list may throw
Main_LoopBody ==
    /\ pc = "main_body"
    /\ \E minimized \in BOOLEAN :
         \/ /\ call' = [call EXCEPT !.minimized = minimized,
                                    !.frames = @ + 1]
            /\ pc' = "main_loop"
         \/ /\ ~minimized
            /\ call' = [call EXCEPT !.minimized = minimized]
            /\ pc' = "main_throw"
    /\ UNCHANGED <<ret, rt, sc, r, dev, fr, hist>>

\* Main.cpp:530-533 with ScopeExit::Release (77-81): cleanup.Release();
\* return 0;
Main_Release ==
    /\ pc = "main_release"
    /\ call' = [call EXCEPT !.Active = FALSE, !.exit = "return"]
    /\ pc' = "main_guard"
    /\ UNCHANGED <<ret, rt, sc, r, dev, fr, hist>>

\* An exception leaves main, which has no handler: whether the stack is
\* unwound before std::terminate is up to the implementation
Main_Throw ==
    /\ pc = "main_throw"
    /\ call' = [call EXCEPT !.exit = "exception"]
    /\ pc' \in {"main_guard", "main_exited"}
    /\ UNCHANGED <<ret, rt, sc, r, dev, fr, hist>>

\* Main.cpp:62-70 ~ScopeExit and the callback (356-396)
ScopeExit_Destructor ==
    /\ pc = "main_guard"
    /\ call' = IF call.Active
               THEN [call EXCEPT !.cleanupRuns = @ + 1,
                                 !.cleaned = @ \o CleanupCalls]
               ELSE call
    /\ pc' = "main_exited"
    /\ UNCHANGED <<ret, rt, sc, r, dev, fr, hist>>

MainNext ==
    \/ Main_FirstFrame
    \/ Main_LoopCondition
    \/ Main_LoopBody
    \/ Main_Release
    \/ Main_Throw
    \/ ScopeExit_Destructor

MainSpec == MainInit /\ [][MainNext]_vars

(***************************************************************************)
(* GlfwWindow and the process-wide GLFW reference count                    *)
(* (Engine/Source/Platform/Window/GlfwWindow.cpp:38-154; the editor's      *)
(* Platform/Window/GlfwWindow.cpp:37-170 is the same code)                 *)
(***************************************************************************)
Windows == 1 .. MaxWindows

\* GlfwWindow.cpp:41-48 GlfwWindow::GlfwWindow; Handle is TRUE when it is
\* not nullptr
NewWindow == [Handle |-> FALSE, ResizedFlag |-> FALSE, IsWindowFocused |-> FALSE]

\* GlfwWindow.cpp:38 G_GlfwRefCount = 0, GLFW not initialised, and the window
\* objects as constructed
WindowInit ==
    /\ pc = "window_idle"
    /\ call = [G_GlfwRefCount |-> 0, glfwInitialized |-> FALSE,
               windows |-> [w \in Windows |-> NewWindow]]
    /\ ret = "host"
    /\ rt = RuntimeInit
    /\ sc = SwapchainInit
    /\ r = RendererInit
    /\ dev = DeviceInit
    /\ fr = FrameInit
    /\ hist = HistInit

\* GlfwWindow.cpp:133-154 GlfwWindow::Destroy
Destroy(state, w) ==
    LET released == state.G_GlfwRefCount > 0
        count == IF released THEN state.G_GlfwRefCount - 1
                             ELSE state.G_GlfwRefCount
    IN  [G_GlfwRefCount |-> count,
         glfwInitialized |-> IF released /\ count = 0
                             THEN FALSE ELSE state.glfwInitialized,
         windows |-> [state.windows EXCEPT ![w] = NewWindow]]

\* GlfwWindow.cpp:57-130 GlfwWindow::Create, with the results of glfwInit and
\* glfwCreateWindow
Create(state, w, initOk, windowOk) ==
    IF state.G_GlfwRefCount = 0 /\ ~initOk
    THEN state
    ELSE LET counted == [state EXCEPT !.G_GlfwRefCount = @ + 1,
                                      !.glfwInitialized = TRUE,
                                      !.windows[w] = NewWindow]
         IN  IF ~windowOk
             THEN Destroy([counted EXCEPT !.windows[w].Handle = FALSE], w)
             ELSE [counted EXCEPT !.windows[w].Handle = TRUE]

\* GlfwWindow.cpp:57-130 a call of Create on one of the windows
GlfwWindow_Create ==
    /\ pc = "window_idle"
    /\ call.G_GlfwRefCount < MaxRefs
    /\ \E w \in Windows, initOk, windowOk \in BOOLEAN :
         call' = Create(call, w, initOk, windowOk)
    /\ UNCHANGED <<pc, ret, rt, sc, r, dev, fr, hist>>

\* GlfwWindow.cpp:51-54, 133-154 a call of Destroy, explicit or from the
\* destructor, on one of the windows
GlfwWindow_Destroy ==
    /\ pc = "window_idle"
    /\ \E w \in Windows : call' = Destroy(call, w)
    /\ UNCHANGED <<pc, ret, rt, sc, r, dev, fr, hist>>

\* GlfwWindow.cpp:99-121 the focus and framebuffer-size callbacks of a
\* window that GLFW still knows
GlfwWindow_Callback ==
    /\ pc = "window_idle"
    /\ call.glfwInitialized
    /\ \E w \in Windows :
         /\ call.windows[w].Handle
         /\ \/ \E Focused \in BOOLEAN :
                 call' = [call EXCEPT !.windows[w].IsWindowFocused = Focused]
            \/ call' = [call EXCEPT !.windows[w].ResizedFlag = TRUE]
    /\ UNCHANGED <<pc, ret, rt, sc, r, dev, fr, hist>>

WindowNext ==
    \/ GlfwWindow_Create
    \/ GlfwWindow_Destroy
    \/ GlfwWindow_Callback

WindowSpec == WindowInit /\ [][WindowNext]_vars

(***************************************************************************)
(* Input mode, mouse capture and look input                                *)
(* (Engine/Source/Input/InputState.cpp, Editor/Source/Platform/Input/      *)
(* GlfwInput.cpp, the input part of the main loop Main.cpp:430-451)        *)
(***************************************************************************)
MouseButtons == {"MouseLeft", "MouseRight", "MouseMiddle"}
ModeKeys == {"F1", "F2", "ESCAPE"}
CursorPositions == 0 .. MaxCursor

\* InputState.h:120-141 InputState, InputState.cpp:29 g_InputMode, the
\* cursor mode of the GLFW window and the engine state; stale, staleDelta
\* and applied observe the run: whether MouseX is not the position of the
\* latest cursor event in the current cursor mode, whether this frame's
\* delta was measured from such a position, and what ApplyInputMode did
InputStates(engineStates) ==
    [g_CurrentEngineState : engineStates, g_InputMode : {"Game"},
     Keys : {[b \in MouseButtons |-> FALSE]}, FirstMouse : {TRUE},
     MouseX : {0}, MouseDeltaX : {0}, LookX : {0},
     WindowFocused : BOOLEAN, WantsMouseCapture : {FALSE},
     MouseCaptured : {FALSE}, cursor : {"normal"}, events : {0},
     stale : {FALSE}, staleDelta : {FALSE}, applied : {"none"}]

\* InputState.cpp:183-191 SetWindowFocused
SetWindowFocused(st, Focused) ==
    [st EXCEPT !.WindowFocused = Focused,
               !.WantsMouseCapture = IF Focused THEN @ ELSE FALSE]

\* InputState.cpp:207-210 RequestMouseCapture
RequestMouseCapture(st, Capture) == [st EXCEPT !.WantsMouseCapture = Capture]

\* SetInputMode as it would be if it left the capture request alone
SetInputMode_ModeOnly(st, Mode) == [st EXCEPT !.g_InputMode = Mode]

\* InputState.cpp:194-198 SetInputMode
SetInputMode(st, Mode) ==
    RequestMouseCapture([st EXCEPT !.g_InputMode = Mode], Mode = "Game")

\* InputState.cpp:213-221 ShouldCaptureMouse
ShouldCaptureMouse(st) ==
    IF st.g_InputMode # "Game" THEN FALSE
    ELSE st.WindowFocused /\ st.WantsMouseCapture

\* GlfwInput.cpp:89-110 GlfwInput::ApplyInputMode
ApplyInputMode(st) ==
    LET shouldCapture == ShouldCaptureMouse(st)
        isCaptured == st.cursor = "disabled"
    IN  IF shouldCapture /\ ~isCaptured
        THEN [st EXCEPT !.cursor = "disabled", !.FirstMouse = TRUE,
                        !.MouseCaptured = TRUE,
                        !.stale = TRUE, !.applied = "capture"]
        ELSE IF ~shouldCapture /\ isCaptured
        THEN [st EXCEPT !.cursor = "normal", !.FirstMouse = TRUE,
                        !.MouseCaptured = FALSE,
                        !.stale = TRUE, !.applied = "release"]
        ELSE [st EXCEPT !.applied = "keep"]

\* GlfwInput.cpp:129-171 GlfwInput::KeyCallback for a press of F1, F2 or
\* Escape
KeyCallback(st, key) ==
    CASE key = "F1" ->
           RequestMouseCapture([st EXCEPT !.g_CurrentEngineState = "Editor"],
                               FALSE)
      [] key = "F2" -> [st EXCEPT !.g_CurrentEngineState = "Game"]
      [] OTHER ->
           IF st.g_InputMode # "Game" /\ st.WindowFocused
           THEN RequestMouseCapture(st, FALSE)
           ELSE st

\* GlfwInput.cpp:174-210 GlfwInput::MouseCallback with InputState.cpp:169-173
\* AddMouseDelta, for the x coordinate
MouseCallback(st, xpos) ==
    LET allowLook ==
          \/ st.cursor = "disabled"
          \/ /\ st.g_InputMode = "Editor"
             /\ st.Keys["MouseRight"] \/ st.Keys["MouseMiddle"]
    IN  IF ~allowLook
        THEN [st EXCEPT !.stale = TRUE]
        ELSE IF st.FirstMouse
        THEN [st EXCEPT !.MouseX = xpos, !.FirstMouse = FALSE,
                        !.stale = FALSE]
        ELSE [st EXCEPT !.MouseX = xpos,
                        !.MouseDeltaX = @ + (xpos - st.MouseX),
                        !.stale = FALSE,
                        !.staleDelta = @ \/ st.stale]

\* GlfwInput.cpp:213-243 GlfwInput::MouseButtonCallback with
\* InputState.cpp:156-166 SetKeyState
MouseButtonCallback(st, button, pressed) ==
    LET requested ==
          IF pressed /\ button = "MouseLeft" /\ st.g_InputMode = "Game"
                     /\ st.WindowFocused
          THEN RequestMouseCapture(st, TRUE) ELSE st
        seeded ==
          IF pressed /\ st.g_InputMode = "Editor"
                     /\ button \in {"MouseRight", "MouseMiddle"}
          THEN [requested EXCEPT !.FirstMouse = TRUE] ELSE requested
    IN  [seeded EXCEPT !.Keys[button] = pressed]

\* GlfwInput.cpp:253-265 GlfwInput::WindowFocusCallback; a window that
\* loses the focus is sent the release of every button that is down
WindowFocusCallback(st, focused) ==
    LET told == SetWindowFocused(st, focused)
    IN  IF focused THEN told
        ELSE [told EXCEPT !.Keys = [b \in MouseButtons |-> FALSE]]

\* InputState.cpp:101-147 ResolveAxis for LookX, without the scale
ResolveAxis(st) ==
    IF st.g_InputMode = "Editor"
       /\ ~(st.Keys["MouseRight"] \/ st.Keys["MouseMiddle"])
    THEN 0
    ELSE st.MouseDeltaX

\* Main.cpp:141 GlfwInput::Attach caches the focus of the new window; the
\* editor starts in either engine state
InputInit ==
    /\ pc = "input_poll"
    /\ call \in InputStates({"Editor", "Game"})
    /\ ret = "host"
    /\ rt = RuntimeInit
    /\ sc = SwapchainInit
    /\ r = RendererInit
    /\ dev = DeviceInit
    /\ fr = FrameInit
    /\ hist = HistInit

\* Main.cpp:436 window.PollEvents delivers one more event: key and button
\* events go to a focused window, cursor events to any
Input_Event ==
    /\ pc = "input_poll"
    /\ call.events < MaxEvents
    /\ LET st == [call EXCEPT !.events = @ + 1]
       IN  \/ \E focused \in BOOLEAN :
                /\ focused # call.WindowFocused
                /\ call' = WindowFocusCallback(st, focused)
           \/ /\ call.WindowFocused
              /\ \E key \in ModeKeys : call' = KeyCallback(st, key)
           \/ /\ call.WindowFocused
              /\ \E button \in MouseButtons :
                   call' = MouseButtonCallback(st, button, ~call.Keys[button])
           \/ \E xpos \in CursorPositions : call' = MouseCallback(st, xpos)
    /\ UNCHANGED <<pc, ret, rt, sc, r, dev, fr, hist>>

\* Main.cpp:439-445 SetInputMode from the engine state
Input_SetInputMode ==
    /\ pc = "input_poll"
    /\ call' = SetInputMode(call, call.g_CurrentEngineState)
    /\ pc' = "input_mode_set"
    /\ UNCHANGED <<ret, rt, sc, r, dev, fr, hist>>

\* Main.cpp:448 GlfwInput::ApplyInputMode
Input_ApplyInputMode ==
    /\ pc = "input_mode_set"
    /\ call' = ApplyInputMode(call)
    /\ pc' = "input_synced"
    /\ UNCHANGED <<ret, rt, sc, r, dev, fr, hist>>

\* Main.cpp:451, InputState.cpp:240-277 InputEndFrame resolves the look axis
Input_EndFrame ==
    /\ pc = "input_synced"
    /\ call' = [call EXCEPT !.LookX = ResolveAxis(call)]
    /\ pc' = "input_frame_end"
    /\ UNCHANGED <<ret, rt, sc, r, dev, fr, hist>>

\* Main.cpp:433, InputState.cpp:230-237 InputBeginFrame of the next frame
Input_BeginFrame ==
    /\ pc = "input_frame_end"
    /\ call' = [call EXCEPT !.MouseDeltaX = 0, !.LookX = 0, !.events = 0,
                            !.staleDelta = FALSE, !.applied = "none"]
    /\ pc' = "input_poll"
    /\ UNCHANGED <<ret, rt, sc, r, dev, fr, hist>>

InputNext ==
    \/ Input_Event
    \/ Input_SetInputMode
    \/ Input_ApplyInputMode
    \/ Input_EndFrame
    \/ Input_BeginFrame

InputSpec == InputInit /\ [][InputNext]_vars

(***************************************************************************)
(* Switching the active skybox (SkyboxRenderer.cpp:743-853, 1010-1224)     *)
(***************************************************************************)
\* The catalog's names, and a name the catalog does not have
SkyboxNames == {"day", "night"}
RequestedNames == SkyboxNames \cup {"unknown"}

\* The calls of LoadSkyboxResources that can fail, in the order made
LoadFailures ==
    {"LoadHdrImage", "ConvertToCubemap", "CreateBuffer", "vkMapMemory",
     "vkCreateImage", "vkAllocateMemory", "BeginSingleTimeCommands",
     "vkCreateImageView", "vkCreateSampler"}

\* SkyboxRenderer.h:136-139 VK_NULL_HANDLE
NullHandle == 0

\* SkyboxRenderer.cpp:1199-1224 SkyboxRenderer::DestroySkyboxResources; live
\* is the set of handles the device has not destroyed
DestroySkyboxResources(sky) ==
    [sky EXCEPT !.CubemapSampler = NullHandle, !.CubemapView = NullHandle,
                !.CubemapImage = NullHandle, !.CubemapMemory = NullHandle,
                !.live = @ \ {<<"sampler", sky.CubemapSampler>>,
                              <<"view", sky.CubemapView>>,
                              <<"image", sky.CubemapImage>>,
                              <<"memory", sky.CubemapMemory>>}]

\* SkyboxRenderer.cpp:1010-1197 SkyboxRenderer::LoadSkyboxResources, with the
\* call that fails ("none": every call succeeds); the new handles are
\* numbered by the load that made them
LoadSkyboxResources(sky, fail) ==
    LET cleared == DestroySkyboxResources(sky)
        id == sky.loads + 1
        counted == [cleared EXCEPT !.loads = id]
        withView == [counted EXCEPT
                        !.CubemapImage = id, !.CubemapMemory = id,
                        !.CubemapView = id,
                        !.live = @ \cup {<<"image", id>>, <<"memory", id>>,
                                         <<"view", id>>}]
        withSampler == [withView EXCEPT
                           !.CubemapSampler = id,
                           !.live = @ \cup {<<"sampler", id>>}]
    IN  CASE fail \in {"LoadHdrImage", "ConvertToCubemap", "CreateBuffer",
                       "vkMapMemory", "vkCreateImage", "vkAllocateMemory",
                       "BeginSingleTimeCommands"} ->
               [ok |-> FALSE, sky |-> counted]
          [] fail = "vkCreateImageView" ->
               [ok |-> FALSE,
                sky |-> DestroySkyboxResources(
                          [counted EXCEPT
                              !.CubemapImage = id, !.CubemapMemory = id,
                              !.live = @ \cup {<<"image", id>>,
                                               <<"memory", id>>}])]
          [] fail = "vkCreateSampler" ->
               [ok |-> FALSE, sky |-> DestroySkyboxResources(withView)]
          [] OTHER ->
               [ok |-> TRUE,
                sky |-> [withSampler EXCEPT
                            !.bound = [view |-> id, sampler |-> id]]]

\* SkyboxRenderer.cpp:833-853 SkyboxRenderer::SetActiveSkybox
SetActiveSkybox(sky, Name, fail) ==
    IF Name \notin SkyboxNames
    THEN [ok |-> FALSE, sky |-> sky]
    ELSE LET loaded == LoadSkyboxResources(sky, fail)
         IN  IF ~loaded.ok
             THEN loaded
             ELSE [ok |-> TRUE,
                   sky |-> [loaded.sky EXCEPT !.ActiveSkyboxName = Name]]

\* SkyboxRenderer.cpp:676-700 the renderer after a successful Create: the
\* default skybox is active and loaded
SkyboxInit ==
    /\ pc = "skybox_idle"
    /\ call = [sky |-> [ActiveSkyboxName |-> "day",
                        CubemapImage |-> 1, CubemapMemory |-> 1,
                        CubemapView |-> 1, CubemapSampler |-> 1,
                        bound |-> [view |-> 1, sampler |-> 1],
                        live |-> {<<"image", 1>>, <<"memory", 1>>,
                                  <<"view", 1>>, <<"sampler", 1>>},
                        loads |-> 1],
               returned |-> "none", requested |-> "none",
               before |-> <<>>, drawn |-> <<>>]
    /\ ret = "host"
    /\ rt = RuntimeInit
    /\ sc = SwapchainInit
    /\ r = RendererInit
    /\ dev = DeviceInit
    /\ fr = FrameInit
    /\ hist = HistInit

\* SkyboxRenderer.cpp:833-853 a call of SetActiveSkybox; before keeps the
\* renderer as it was when the call was made
Skybox_SetActiveSkybox ==
    /\ pc = "skybox_idle"
    /\ call.sky.loads < MaxLoads
    /\ \E Name \in RequestedNames, fail \in LoadFailures \cup {"none"} :
         LET result == SetActiveSkybox(call.sky, Name, fail)
         IN  call' = [call EXCEPT !.sky = result.sky,
                                  !.returned = IF result.ok THEN "true"
                                               ELSE "false",
                                  !.requested = Name,
                                  !.before = <<call.sky>>,
                                  !.drawn = <<>>]
    /\ UNCHANGED <<pc, ret, rt, sc, r, dev, fr, hist>>

\* SkyboxRenderer.cpp:743-831 SkyboxRenderer::Record with a camera, a
\* pipeline and a non-zero extent: the descriptor set is bound and the
\* skybox is drawn with the view and sampler the set was last written with
Skybox_Record ==
    /\ pc = "skybox_idle"
    /\ call' = [call EXCEPT !.drawn = <<call.sky.bound>>]
    /\ UNCHANGED <<pc, ret, rt, sc, r, dev, fr, hist>>

SkyboxNext ==
    \/ Skybox_SetActiveSkybox
    \/ Skybox_Record

SkyboxSpec == SkyboxInit /\ [][SkyboxNext]_vars

(***************************************************************************)
(* Run-length decoding of one HDR scanline (SkyboxRenderer.cpp:143-191)    *)
(***************************************************************************)
\* Bytes of the file: a literal count of zero or one (also a value), and a
\* run of two (a count byte above 128 is a run of count - 128)
HdrBytes == {0, 1, 130}
HdrFiles == SeqsUpTo(HdrBytes, MaxFileLen)

\* SkyboxRenderer.cpp:143-149 DecodeHdrScanline is entered with the rest of
\* the file and the width of the header; OutScanline has Width * 4 bytes.
\* outside collects the indexes written that are not in OutScanline
DecodeInit ==
    /\ pc = "hdr_scan"
    /\ call \in [File : HdrFiles, pos : {1}, Width : 1 .. MaxWidth,
                 channel : {0}, x : {0}, count : {0}, i : {0},
                 run : {FALSE}, value : {0}, written : {{}},
                 outside : {{}}, returned : {"none"}]
    /\ ret = "host"
    /\ rt = RuntimeInit
    /\ sc = SwapchainInit
    /\ r = RendererInit
    /\ dev = DeviceInit
    /\ fr = FrameInit
    /\ hist = HistInit

\* File.read of one byte: fails at the end of the file
CanRead(c) == c.pos <= Len(c.File)

\* SkyboxRenderer.cpp:147-150, 190 the channel loop and the test of the
\* while loop
Decode_NextChannel ==
    /\ pc = "hdr_scan"
    /\ call.channel < 4 => call.x >= call.Width
    /\ IF call.channel >= 4
       THEN /\ call' = [call EXCEPT !.returned = "true"]
            /\ pc' = "hdr_done"
       ELSE /\ call' = [call EXCEPT !.channel = @ + 1, !.x = 0]
            /\ pc' = pc
    /\ UNCHANGED <<ret, rt, sc, r, dev, fr, hist>>

\* SkyboxRenderer.cpp:152-166, 173 the count byte, and the value of a run
Decode_ReadCount ==
    /\ pc = "hdr_scan"
    /\ call.channel < 4
    /\ call.x < call.Width
    /\ IF ~CanRead(call)
       THEN /\ call' = [call EXCEPT !.returned = "false"]
            /\ pc' = "hdr_done"
       ELSE LET count == call.File[call.pos]
                after == [call EXCEPT !.pos = @ + 1, !.i = 0]
            IN  IF count > 128
                THEN IF ~CanRead(after)
                     THEN /\ call' = [after EXCEPT !.returned = "false"]
                          /\ pc' = "hdr_done"
                     ELSE /\ call' = [after EXCEPT
                                         !.count = count - 128,
                                         !.run = TRUE,
                                         !.value = after.File[after.pos],
                                         !.pos = @ + 1]
                          /\ pc' = "hdr_write"
                ELSE /\ call' = [after EXCEPT !.count = count,
                                              !.run = FALSE]
                     /\ pc' = "hdr_write"
    /\ UNCHANGED <<ret, rt, sc, r, dev, fr, hist>>

\* SkyboxRenderer.cpp:167-171, 175-185 one iteration of the inner for loop:
\* OutScanline[4 * x + channel] = value. A write past Width * 4 is outside
\* the vector: the program may go on or stop there
Decode_Write ==
    /\ pc = "hdr_write"
    /\ IF call.i >= call.count
       THEN /\ call' = call
            /\ pc' = "hdr_scan"
       ELSE IF ~call.run /\ ~CanRead(call)
       THEN /\ call' = [call EXCEPT !.returned = "false"]
            /\ pc' = "hdr_done"
       ELSE LET index == 4 * call.x + call.channel
                inside == index < call.Width * 4
                value == IF call.run THEN call.value
                         ELSE call.File[call.pos]
            IN  /\ call' = [call EXCEPT
                              !.pos = IF call.run THEN @ ELSE @ + 1,
                              !.value = value,
                              !.written = IF inside THEN @ \cup {index}
                                          ELSE @,
                              !.outside = IF inside THEN @
                                          ELSE @ \cup {index},
                              !.x = @ + 1, !.i = @ + 1]
                /\ pc' \in IF inside THEN {"hdr_write"}
                           ELSE {"hdr_write", "hdr_crashed"}
    /\ UNCHANGED <<ret, rt, sc, r, dev, fr, hist>>

DecodeNext ==
    \/ Decode_NextChannel
    \/ Decode_ReadCount
    \/ Decode_Write

DecodeSpec == DecodeInit /\ [][DecodeNext]_vars

(***************************************************************************)
(* Properties                                                              *)
(***************************************************************************)
\* The number of objects of a kind the fields of the swapchain and of the
\* renderer hold
Held(k) ==
    CASE k = "Swapchain" -> IF sc.Swapchain # 0 THEN 1 ELSE 0
      [] k = "SwapchainImageViews" -> Len(sc.SwapchainImageViews)
      [] k = "ColorImages" -> r.ColorImages
      [] k = "CommandBuffers" -> r.CommandBuffers
      [] k = "Framebuffers" -> Len(r.Framebuffers)
      [] OTHER -> IF r[k] THEN 1 ELSE 0

RecordingPcs ==
    {"rec_shadow_to_depth", "rec_shadow", "rec_shadow_to_read",
     "rec_main_begin", "rec_skybox", "rec_opaque", "rec_transparent",
     "rec_main_end"}

IsDraw(e) == e.cmd \in {"Draw", "DrawIndexed"}
NotDraw(e) == ~IsDraw(e)

\* A recorded command without its draw details; a barrier keeps the layout
\* it transitions to.
Stage(e) == IF e.cmd = "Barrier" THEN <<"Barrier", e.newLayout>> ELSE <<e.cmd>>

\* The non-draw commands of a command buffer, in recording order
Stages(log) ==
    LET kept == SelectSeq(log, NotDraw)
    IN  [i \in 1..Len(kept) |-> Stage(kept[i])]

\* The number of non-draw commands recorded before position i
StagesBefore(log, i) == Len(SelectSeq(SubSeq(log, 1, i), NotDraw))

FrameOrder ==
    << <<"Barrier", "DEPTH_STENCIL_ATTACHMENT_OPTIMAL">>,
       <<"BeginShadowPass">>, <<"EndShadowPass">>,
       <<"Barrier", "DEPTH_STENCIL_READ_ONLY_OPTIMAL">>,
       <<"BeginMainPass">>, <<"SkyboxStage">>, <<"OpaqueStage">>,
       <<"TransparentStage">>, <<"EndMainPass">> >>

\* C1: exactly one frame is in flight.  From the return of the fence wait
\* until the fence is reset DrawFrame holds a signaled fence; while it
\* resets, records and submits, no earlier submission is still executing;
\* and a submission in flight keeps the fence unsignaled.
C1_OneFrameInFlight ==
    /\ pc \in {"df_acquire", "df_reset"} => dev.fence = "signaled"
    /\ pc \in {"df_acquire", "df_reset", "df_submit"} \cup RecordingPcs
          => ~dev.busy
    /\ dev.busy => dev.fence = "unsignaled"

\* A second frame is about to be submitted after the first one completed.
C1_Witness ==
    /\ pc = "df_submit"
    /\ fr.cmdLog[1].oldLayout = "DEPTH_STENCIL_READ_ONLY_OPTIMAL"
    /\ dev.fence = "unsignaled"
    /\ ~dev.busy

\* C2: every recorded frame follows the fixed order: barrier to the
\* attachment layout, the whole shadow pass, barrier to the shader-readable
\* layout, then the main pass with the skybox, opaque and transparent
\* stages; what is recorded so far is always a prefix of that order, the
\* draws lie inside their pass or stage, and a frame that is submitted holds
\* the whole order.
C2_FixedRecordingOrder ==
    LET log == fr.cmdLog
        st == Stages(log)
    IN  /\ Len(st) <= Len(FrameOrder)
        /\ \A i \in DOMAIN st : st[i] = FrameOrder[i]
        /\ \A i \in DOMAIN log :
             IsDraw(log[i]) =>
               StagesBefore(log, i) = CASE log[i].pass = "shadow" -> 2
                                        [] log[i].pass = "skybox" -> 6
                                        [] log[i].pass = "opaque" -> 7
        /\ pc \in {"df_submit", "df_present"} => st = FrameOrder

\* A frame with shadow, skybox and opaque draws has been recorded in full.
C2_Witness ==
    /\ pc = "df_submit"
    /\ Stages(fr.cmdLog) = FrameOrder
    /\ \A p \in {"shadow", "skybox", "opaque"} :
         \E i \in DOMAIN fr.cmdLog :
            IsDraw(fr.cmdLog[i]) /\ fr.cmdLog[i].pass = p

\* C3: the first frame recorded after the shadow attachment was created
\* declares UNDEFINED as the old layout of its first barrier, every later
\* frame declares the shader-readable layout, whatever frames were skipped
\* and whatever resizes happened in between.
C3_ShadowLayoutCycle ==
    pc = "rec_shadow" =>
       fr.cmdLog[1].oldLayout = IF hist.shadowFrames = 0
                                THEN "UNDEFINED"
                                ELSE "DEPTH_STENCIL_READ_ONLY_OPTIMAL"

\* A later frame, recorded after a resize recreated the swapchain, declares
\* the shader-readable layout.
C3_Witness ==
    /\ pc = "rec_shadow"
    /\ hist.shadowFrames = 1
    /\ r.Swapchain = 2
    /\ fr.cmdLog[1].oldLayout = "DEPTH_STENCIL_READ_ONLY_OPTIMAL"

\* C4: a frame requested while the swapchain extent is zero-area is skipped
\* before recording: DrawFrame never gets to its fence wait, its recording,
\* its submission or its present.
C4_ZeroExtentFrameSkipped ==
    IsZeroArea(sc.SwapchainExtent) =>
       pc \notin ({"df_wait", "df_acquire", "df_reset", "df_submit",
                   "df_present"} \cup RecordingPcs)

\* C5: when the acquisition reports VK_ERROR_OUT_OF_DATE_KHR, DrawFrame
\* returns with the fence still signaled and no submission executing,
\* nothing recorded, nothing submitted, nothing presented, after a single
\* acquisition attempt.
C5_StaleAcquireAborts ==
    (pc = "df_return" /\ fr.acquireResult = "VK_ERROR_OUT_OF_DATE_KHR") =>
       /\ dev.fence = "signaled"
       /\ ~dev.busy
       /\ fr.cmdLog = <<>>
       /\ fr.submitResult = "none"
       /\ fr.presentResult = "none"
       /\ fr.acquires = 1

\* DrawFrame, called from Tick, has returned after a stale acquisition.
C5_Witness ==
    /\ pc = "df_return"
    /\ ret = "tick"
    /\ fr.acquireResult = "VK_ERROR_OUT_OF_DATE_KHR"

\* C6 as stated: after a suboptimal acquisition the frame is skipped:
\* DrawFrame is on its way out with nothing recorded, submitted or presented.
C6_SuboptimalAcquireSkipped ==
    fr.acquireResult = "VK_SUBOPTIMAL_KHR" =>
       /\ pc = "df_return"
       /\ fr.cmdLog = <<>>
       /\ fr.submitResult = "none"
       /\ fr.presentResult = "none"

\* C6 amended: a suboptimal acquisition is handled like a successful one:
\* a DrawFrame call that returns after it has recorded the whole frame,
\* handed it to vkQueueSubmit and, when the submission was accepted,
\* presented it.
C6_SuboptimalAcquireProceeds ==
    (pc = "df_return" /\ fr.acquireResult = "VK_SUBOPTIMAL_KHR") =>
       /\ Stages(fr.cmdLog) = FrameOrder
       /\ fr.submitResult # "none"
       /\ fr.submitResult = "VK_SUCCESS" => fr.presentResult # "none"

\* A frame acquired as suboptimal has been submitted and presented.
C6_Witness ==
    /\ pc = "df_return"
    /\ fr.acquireResult = "VK_SUBOPTIMAL_KHR"
    /\ fr.submitResult = "VK_SUCCESS"
    /\ fr.presentResult # "none"

\* C7: a failed present is not fatal.  Whatever vkQueuePresentKHR reports,
\* the step that calls it ends in the normal return of DrawFrame, changes
\* nothing of the runtime, the swapchain or the renderer, and leaves the
\* fence and the semaphores as a successful present does (RenderFinished
\* consumed, the fence untouched).
C7_FailedPresentNonFatal ==
    [][(pc = "df_present" /\ pc' # "df_present") =>
          /\ pc' = "df_return"
          /\ ret' = ret /\ rt' = rt /\ sc' = sc /\ r' = r
          /\ dev' = [dev EXCEPT
                       !.renderFinished = Max2(dev.renderFinished - 1, 0)]]_vars

\* DrawFrame, called from Tick, has returned after a present that failed.
C7_Witness ==
    /\ pc = "df_return"
    /\ ret = "tick"
    /\ fr.presentResult = "VK_ERROR_OUT_OF_DATE_KHR"
    /\ rt.Initialized
    /\ DrawFrameGuardPasses

\* The frame that is returning was acquired, recorded in full, submitted
\* and presented.
FramePresented ==
    /\ fr.acquireResult \in {"VK_SUCCESS", "VK_SUBOPTIMAL_KHR"}
    /\ Stages(fr.cmdLog) = FrameOrder
    /\ fr.submitResult = "VK_SUCCESS"
    /\ fr.presentResult # "none"

C9_FramebuffersDestroyedBeforeViews ==
    \A i \in DOMAIN r.Framebuffers :
       \E j \in DOMAIN sc.SwapchainImageViews :
          r.Framebuffers[i] = sc.SwapchainImageViews[j]

\* C10: whenever the runtime is about to destroy or recreate resources
\* (Shutdown, the failure path of Initialize, both recreations of OnResize),
\* no submitted work is executing on the queue.
C10_IdleBeforeDestroy ==
    pc \in {"sd_destroy", "init_fail", "rs_swapchain", "rs_renderer"}
       => DeviceIdle

\* Shutdown is about to destroy the resources after a submitted frame has
\* completed.
C10_Witness ==
    /\ pc = "sd_destroy"
    /\ rt.Initialized
    /\ r.ShadowLayoutInitialized
    /\ dev.fence = "signaled"

\* A frame may be drawn: DrawFrame is entered, or the runtime is initialized
\* and waits for the next Tick.
FrameMayBeDrawn == pc = "df_guard" \/ (pc = "idle" /\ rt.Initialized)

\* C11: at every point where a frame may be drawn, after creation and after
\* every resize whether its recreation steps succeeded or failed, the
\* renderer holds as many color images, framebuffers and command buffers as
\* the swapchain has images, and the depth and color images have the extent
\* of the swapchain.
C11_AttachmentsMatchSwapchain ==
    FrameMayBeDrawn =>
       LET n == Len(sc.SwapchainImageViews)
       IN  /\ r.ColorImages = n
           /\ Len(r.Framebuffers) = n
           /\ r.CommandBuffers = n
           /\ n > 0 => /\ r.DepthImage
                       /\ r.DepthExtent = sc.SwapchainExtent
                       /\ r.ColorExtent = sc.SwapchainExtent

\* The calls Renderer.Recreate makes when OnResize calls it in the current
\* state and creation fails at failAt
ResizeCalls(failAt, k) ==
    RendererRecreateCalls(r, sc.SwapchainImageViews, failAt, k)

\* The renderer OnResize leaves behind in that case
ResizeResult(failAt, k) ==
    RendererRecreate(r, sc.Swapchain, rt.RenderPass, sc.SwapchainImageViews,
                     sc.SwapchainExtent, failAt, k)

PartialCounts == 0..Max2(Len(sc.SwapchainImageViews) - 1, 0)

Touches(calls, objs) == \E i \in DOMAIN calls : calls[i].obj \in objs

Creates(calls, obj) ==
    \E i \in DOMAIN calls : calls[i].op = "create" /\ calls[i].obj = obj

Destroys(calls, obj) ==
    \E i \in DOMAIN calls : calls[i].op = "destroy" /\ calls[i].obj = obj

\* The calls release an object of the kind and later create one
Rebuilds(calls, obj) ==
    \E i, j \in DOMAIN calls :
       /\ i < j
       /\ calls[i].op = "destroy" /\ calls[i].obj = obj
       /\ calls[j].op = "create" /\ calls[j].obj = obj

\* C12 as stated: a resize rebuilds no pipeline and not the shadow render
\* pass: Renderer.Recreate neither releases nor creates the sky, world and
\* shadow pipelines, the skybox pipeline or the shadow attachment's objects.
C12_ResizeRebuildsNoPipeline ==
    pc = "rs_renderer" =>
       \A failAt \in RecreateFailures, k \in PartialCounts :
          ~Touches(ResizeCalls(failAt, k),
                   {"Pipeline", "SkyboxPipeline", "ShadowImage"})

\* C12 amended: a resize neither releases nor creates the sky, world and
\* shadow pipelines or the shadow render pass, and leaves their handles as
\* they were; the skybox pipeline is the one pipeline it rebuilds: a
\* Renderer.Recreate that succeeds has destroyed the skybox pipeline, when
\* there was one, and created a new one.
C12_ResizeRebuildsOnlySkyboxPipeline ==
    pc = "rs_renderer" =>
       \A failAt \in RecreateFailures, k \in PartialCounts :
          /\ ~Touches(ResizeCalls(failAt, k), {"Pipeline", "ShadowImage"})
          /\ ResizeResult(failAt, k).Pipeline = r.Pipeline
          /\ ResizeResult(failAt, k).ShadowImage = r.ShadowImage
          /\ RendererRecreateOk(r, failAt) =>
                /\ Creates(ResizeCalls(failAt, k), "SkyboxPipeline")
                /\ r.SkyboxPipeline =>
                      Rebuilds(ResizeCalls(failAt, k), "SkyboxPipeline")

\* OnResize is about to recreate the renderer of a runtime that has drawn
\* a frame; all pipelines and the shadow attachment exist.
C12_Witness ==
    /\ pc = "rs_renderer"
    /\ r.Pipeline /\ r.SkyboxPipeline /\ r.ShadowImage
    /\ r.ShadowLayoutInitialized
    /\ Rebuilds(ResizeCalls("none", 0), "SkyboxPipeline")

\* The renderer exists and is neither being created nor being destroyed
RendererInUse ==
    /\ rt.RendererCreated
    /\ pc \notin {"init_scene", "sd_destroy", "init_fail"}

SwapchainFullyPresent ==
    /\ sc.Swapchain # 0
    /\ Len(sc.SwapchainImageViews) > 0
    /\ \A i \in DOMAIN sc.SwapchainImageViews :
          sc.SwapchainImageViews[i] = <<sc.Swapchain, i>>
    /\ sc.ImageFormat # 0

\* The swapchain object shows nothing of any swapchain
SwapchainFullyTornDown ==
    /\ sc.Swapchain = 0
    /\ sc.SwapchainImageViews = <<>>
    /\ sc.ImageFormat = 0
    /\ sc.SwapchainExtent = ZeroExtent

\* C14: after every Create, Recreate and Destroy call, successful or not,
\* the swapchain is either fully present (handle, one view per image, the
\* format and extent of that handle) or fully torn down (null handle, no
\* views, no format and no extent of an earlier swapchain).
C14_SwapchainAllOrNothing ==
    SwapchainFullyPresent \/ SwapchainFullyTornDown

\* C15: for every requested extent with positive width and height and every
\* capability report, the extent selected for the swapchain lies within
\* [minImageExtent, maxImageExtent] in width and in height.
C15_ExtentWithinSurfaceRange ==
    (pc \in {"sel_count", "sel_done"} /\ call.Width > 0 /\ call.Height > 0) =>
       \A d \in 1..2 :
             /\ call.caps.minImageExtent[d] <= call.extent[d]
             /\ call.extent[d] <= call.caps.maxImageExtent[d]

\* The surface leaves the extent to the swapchain and the request exceeds
\* the range in width and falls short of it in height: the selected extent
\* is the nearest one in range.
C15_Witness ==
    /\ pc = "sel_done"
    /\ call.caps.currentExtent = UINT32_MAX_EXTENT
    /\ call.Width > call.caps.maxImageExtent[1]
    /\ call.Height < call.caps.minImageExtent[2]
    /\ call.extent = <<call.caps.maxImageExtent[1],
                       call.caps.minImageExtent[2]>>

\* C16: the image count requested for the swapchain is minImageCount + 1,
\* capped at maxImageCount when the surface has a maximum, and so lies
\* between the surface's minimum and maximum.
C16_ImageCountWithinSurfaceRange ==
    pc = "sel_done" =>
       LET min == call.caps.minImageCount
           max == call.caps.maxImageCount
       IN  /\ call.imageCount >= min
           /\ max > 0 => call.imageCount <= max
           /\ call.imageCount = IF max > 0 THEN Min2(min + 1, max)
                                 ELSE min + 1

\* The surface's maximum equals its minimum, so the cap applies.
C16_Witness ==
    /\ pc = "sel_done"
    /\ call.caps.maxImageCount = call.caps.minImageCount
    /\ call.caps.minImageCount > 1
    /\ call.imageCount = call.caps.maxImageCount

\* The modes a surface offers
Offered(presentModes) == { presentModes[i] : i \in DOMAIN presentModes }

\* C17: the selected present mode is FIFO when vsync is requested; otherwise
\* it is mailbox if the surface offers it, else immediate if the surface
\* offers it, whatever the order of enumeration; and the selected mode is
\* always one the surface offers.
C17_PresentModeOffered ==
    pc = "sel_done" =>
       LET offered == Offered(call.presentModes)
       IN  /\ call.EnableVsync =>
                 call.presentMode = "VK_PRESENT_MODE_FIFO_KHR"
           /\ (~call.EnableVsync
                 /\ "VK_PRESENT_MODE_MAILBOX_KHR" \in offered) =>
                 call.presentMode = "VK_PRESENT_MODE_MAILBOX_KHR"
           /\ (~call.EnableVsync
                 /\ "VK_PRESENT_MODE_MAILBOX_KHR" \notin offered
                 /\ "VK_PRESENT_MODE_IMMEDIATE_KHR" \in offered) =>
                 call.presentMode = "VK_PRESENT_MODE_IMMEDIATE_KHR"
           /\ call.presentMode \in offered

\* The objects CreateVulkanResources has created or, for the renderer,
\* begun to create (Renderer.Create is entered once the render pass exists)
InCreatedSoFar(o) ==
    CASE o = "Instance" -> rt.InstanceCreated
      [] o = "Device" -> rt.DeviceCreated
      [] o = "Surface" -> rt.SurfaceCreated
      [] o = "Swapchain" -> rt.SwapchainCreated
      [] o = "RenderPass" -> rt.RenderPassCreated
      [] o = "Renderer" -> rt.RenderPassCreated

Reverse(q) == [i \in 1..Len(q) |-> q[Len(q) + 1 - i]]

\* The unwinding of a failed startup destroys the objects created so far in
\* the reverse of the order of their creation
UnwindsInReverseOrder ==
    pc = "init_fail" =>
       SelectSeq(RuntimeDestroyOrder(rt), InCreatedSoFar)
         = Reverse(SelectSeq(CreationOrder, InCreatedSoFar))

\* No object is allocated: no handle is held by the runtime, the swapchain
\* or the renderer, and no object is alive on the device
NothingAllocated ==
    /\ ~rt.Instance /\ ~rt.Device /\ ~rt.Surface /\ ~rt.RenderPass
    /\ sc.Swapchain = 0 /\ sc.SwapchainImageViews = <<>>
    /\ \A k \in ObjectKinds : Held(k) = 0 /\ hist.live[k] = 0

\* Initialize has returned false, or has not been called
UnwoundAfterFailure ==
    (pc = "idle" /\ ~rt.Initialized) => NothingAllocated

\* C18: when a creation step fails during startup, every resource created
\* so far is released in the reverse of the order of its creation, and
\* Initialize returns false with nothing left allocated.
C18_StartupFailureUnwinds ==
    /\ UnwindsInReverseOrder
    /\ UnwoundAfterFailure

\* A teardown is about to run: DestroyVulkanResources from Shutdown (also
\* at the start of Initialize) or after a failed creation
TeardownBegins == pc \in {"sd_destroy", "init_fail"}

\* The number of objects of kind k the calls release
RECURSIVE Released(_, _)
Released(calls, k) ==
    IF calls = <<>> THEN 0
    ELSE (IF Head(calls).op = "destroy" /\ Head(calls).obj = k
          THEN Head(calls).n ELSE 0) + Released(Tail(calls), k)

\* Renderer and swapchain as the teardown leaves them
RendererAfterTeardown == IF rt.DeviceCreated THEN RendererDestroy(r) ELSE r
SwapchainAfterTeardown ==
    IF rt.SwapchainCreated THEN SwapchainDestroy(sc) ELSE sc

TornDownAfterResize ==
    /\ pc = "idle" /\ ~rt.Initialized
    /\ sc.ImageFormat # 0
    /\ r.Swapchain = 2

C21_CreationFailureReported ==
    /\ pc = "init_fail" => InitializeIndication(FALSE) = "failure"
    /\ pc = "rs_renderer" =>
          \A failAt \in RecreateFailures, k \in PartialCounts :
             LET swapchainOk == sc.Swapchain # 0
                 rendererOk == RendererRecreateOk(r, failAt)
             IN  ~(swapchainOk /\ rendererOk) =>
                    OnResizeIndication(swapchainOk, rendererOk) = "failure"

\* The item the opaque stage draws: it has a mesh with vertices and, when
\* it is to be drawn indexed, an index buffer
ItemIndexed(item) == item.HasIndex /\ item.IndexCount > 0
ItemDrawn(item) ==
    /\ item.MeshPtr /\ item.VertexCount > 0
    /\ ItemIndexed(item) => item.IndexBuffer

\* C22 as stated: the opaque stage records exactly one draw call per
\* DrawItem, indexed when the item's mesh has HasIndex set and non-indexed
\* otherwise, and the transparent stage records none.
C22_OneDrawPerItem ==
    pc = "stage_done" =>
       /\ Len(call.opaque) = Len(call.RenderItems)
       /\ \A i \in DOMAIN call.opaque :
             call.opaque[i].cmd = IF call.RenderItems[i].HasIndex
                                  THEN "DrawIndexed" ELSE "Draw"
       /\ call.transparent = <<>>

\* C22: the opaque stage records, in item order, one draw call per item
\* that has a mesh with VertexCount > 0 (and an index buffer when HasIndex
\* and IndexCount > 0), indexed with IndexCount indices when HasIndex and
\* IndexCount > 0, non-indexed with VertexCount vertices otherwise; for
\* every other item it records nothing; the transparent stage records no
\* draw call.
C22_OneDrawPerDrawnItem ==
    pc = "stage_done" =>
       LET drawn == SelectSeq(call.RenderItems, ItemDrawn)
       IN  /\ Len(call.opaque) = Len(drawn)
           /\ \A i \in DOMAIN drawn :
                 call.opaque[i] =
                    IF ItemIndexed(drawn[i])
                    THEN [cmd |-> "DrawIndexed", count |-> drawn[i].IndexCount]
                    ELSE [cmd |-> "Draw", count |-> drawn[i].VertexCount]
           /\ call.transparent = <<>>

\* The list of one mesh with HasIndex = false and VertexCount = 36 yields
\* one non-indexed draw of 36 vertices
C22_Witness ==
    /\ pc = "stage_done"
    /\ Len(call.RenderItems) = 1
    /\ call.RenderItems[1].MeshPtr /\ ~call.RenderItems[1].HasIndex
    /\ call.RenderItems[1].VertexCount = 36
    /\ call.opaque = <<[cmd |-> "Draw", count |-> 36]>>
    /\ call.transparent = <<>>

\* The device and the queue family bootstrap selected
SelectedDevice == call.Devices[call.PhysicalDevice]

SelectedFamily == SelectedDevice.Families[call.GraphicsQueueFamily + 1]

\* C23: the queue family selected at bootstrap can do graphics and can
\* present to the created surface; bootstrap never succeeds with a queue
\* family that cannot present to that surface
C23_SelectedQueuePresents ==
    pc = "boot_ok" => SelectedFamily.graphics /\ SelectedFamily.present

HasGraphicsFamily(d) == \E i \in 1..Len(d.Families) : d.Families[i].graphics

\* C24: a discrete GPU is picked when one is enumerated, the first
\* enumerated device otherwise; device creation fails when no enumerated
\* device has a graphics queue family, and when it succeeds the selected
\* device has one
C24_DeviceSelection ==
    LET D == call.Devices
        discrete == {i \in 1..Len(D) : D[i].deviceType = "DISCRETE_GPU"}
    IN  /\ pc \in {"boot_family", "boot_device", "boot_surface", "boot_ok"} =>
             /\ call.PhysicalDevice \in 1..Len(D)
             /\ discrete # {} => SelectedDevice.deviceType = "DISCRETE_GPU"
             /\ discrete = {} => call.PhysicalDevice = 1
        /\ (\A i \in 1..Len(D) : ~HasGraphicsFamily(D[i])) =>
             pc \notin {"boot_surface", "boot_ok"} /\ ~call.Device
        /\ pc \in {"boot_surface", "boot_ok"} =>
             /\ call.Device
             /\ HasGraphicsFamily(SelectedDevice)
             /\ call.GraphicsQueueFamily + 1 \in 1..Len(SelectedDevice.Families)
             /\ SelectedFamily.graphics

\* A discrete GPU enumerated after an integrated one was picked and device
\* creation went through
C24_Witness ==
    /\ pc = "boot_ok"
    /\ Len(call.Devices) = 2
    /\ call.Devices[1].deviceType = "INTEGRATED_GPU"
    /\ call.PhysicalDevice = 2
    /\ call.Device

\* C25: when validation is requested and the layer is not available,
\* bootstrap downgrades instead of failing: instance and device creation
\* succeed, and no later step requests the layer or fails for want of the
\* debug facilities
C25_ValidationDowngrade ==
    (call.DebugBuild /\ ~call.LayerAvailable) =>
        /\ pc # "boot_instance" => call.Instance /\ ~call.ValidationEnabled
        /\ call.InstanceLayers \subseteq AvailableLayers(call)
        /\ call.DeviceLayers \subseteq AvailableLayers(call)
        /\ ~call.DebugMessenger
        /\ (pc = "boot_failed" /\ call.Instance) =>
              \/ call.PhysicalDevice = 0
              \/ ~HasGraphicsFamily(SelectedDevice)

\* How often a line of the set S occurs in the catalog
Occurrences(S) ==
    Cardinality({i \in 1..Len(call.Lines) : call.Lines[i] \in S})

\* What an entry line says: its name, its path under the assets root unless
\* absolute, its size or the definition's default
Written(line) ==
    CASE line = EntryA ->
            [Name |-> <<"a">>, HdrPath |-> <<"R", "/", "s", ".", "h">>, Size |-> 16]
      [] line = EntryANoSize ->
            [Name |-> <<"a">>, HdrPath |-> <<"R", "/", "t", ".", "h">>, Size |-> 512]
      [] line = EntryB ->
            [Name |-> <<"b">>, HdrPath |-> <<"/", "t", ".", "h">>, Size |-> 8]

EntriesOf(default) ==
    IF default = DefaultA THEN {EntryA, EntryANoSize} ELSE {EntryB, EntryBBadSize}

\* C26: after the catalog is parsed the active entry is the one the default
\* line names, with the path and the size of that entry's own line, whatever
\* the order of the lines and whatever other lines the catalog has
C26_ActiveEntryIsNamedDefault ==
    pc = "cat_ok" =>
       \A default \in {DefaultA, DefaultB} :
          \A entry \in EntriesOf(default) \ {EntryBBadSize} :
             ( /\ Occurrences({DefaultA, DefaultB}) = 1
               /\ Occurrences({default}) = 1
               /\ Occurrences(EntriesOf(default)) = 1
               /\ Occurrences({entry}) = 1 )
             => /\ call.ActiveSkyboxName = Written(entry).Name
                /\ call.Active = Written(entry)

\* The default line comes last, after its entry and after another entry
C26_Witness ==
    /\ pc = "cat_ok"
    /\ call.Lines = <<EntryB, EntryA, DefaultA>>
    /\ call.Active.Size = 16

\* C27: a catalog that cannot be opened or that has a line which is neither
\* blank, a comment nor a well-formed key = value entry makes skybox
\* creation fail
C27_BadCatalogFails ==
    ( \/ ~call.FileOpens
      \/ Occurrences({NoEqualsLine, EmptyKeyLine, EmptyValueLine}) > 0 )
    => pc # "cat_ok"

\* The signed unit axis of a face index
FaceAxis(face) ==
    CASE face = 0 -> <<1, 0, 0>>
      [] face = 1 -> <<-1, 0, 0>>
      [] face = 2 -> <<0, 1, 0>>
      [] face = 3 -> <<0, -1, 0>>
      [] face = 4 -> <<0, 0, 1>>
      [] face = 5 -> <<0, 0, -1>>

Sign(n) == IF n > 0 THEN 1 ELSE IF n < 0 THEN -1 ELSE 0

\* C28: the face index determines the face axis as 0..5 = +X, -X, +Y, -Y,
\* +Z, -Z: the direction sampled at the centre of a face is exactly the
\* signed unit axis of the face, and every direction sampled on a face has
\* its largest component along that axis, with the axis's sign
C28_FaceCentreIsAxis ==
    pc = "cube_store" =>
       LET axis == FaceAxis(call.face)
           v == call.dir.v
       IN  /\ (call.a = 0 /\ call.b = 0) =>
                \A i \in 1..3 :
                   /\ v[i] * v[i] = axis[i] * axis[i] * call.dir.len2
                   /\ Sign(v[i]) = axis[i]
           /\ \A i \in 1..3 :
                 axis[i] # 0 =>
                    /\ Sign(v[i]) = axis[i]
                    /\ \A j \in 1..3 : v[j] * v[j] <= v[i] * v[i]

\* The centre pixel of the last face of a three by three cubemap
C28_Witness ==
    /\ pc = "cube_store"
    /\ call.FaceSize = 3
    /\ call.face = 5
    /\ call.a = 0
    /\ call.b = 0

\* C29: every reset of the in-flight fence is followed, on every path out of
\* the same DrawFrame call, by a submission that signals the fence: when
\* DrawFrame returns, the fence is signaled or the queue is executing the
\* submission that will signal it, so the next DrawFrame's wait completes
C29_ResetFenceIsResubmitted ==
    pc \in {"df_return", "idle"} =>
       (dev.fence = "unsignaled" => dev.busy)

\* C30: after any creations and resizes, failed recreations included, a
\* DrawFrame call that got past its guard and acquired an image indexes the
\* command buffers and the framebuffers within their sizes and uses the
\* live swapchain and framebuffers on live image views
C30_DrawFrameIndexesInRange ==
    /\ pc # "crashed"
    /\ pc = "df_reset" =>
          /\ fr.imageIndex < r.CommandBuffers
          /\ fr.imageIndex < Len(r.Framebuffers)
          /\ r.Swapchain = sc.Swapchain
          /\ \E j \in DOMAIN sc.SwapchainImageViews :
                r.Framebuffers[fr.imageIndex + 1] = sc.SwapchainImageViews[j]

\* No acquire is issued while ImageAvailable is signaled and no submission
\* while RenderFinished is signaled or has a signal pending
SemaphoresFreeWhenSignaled ==
    /\ dev.imageAvailable <= 1
    /\ dev.renderFinished <= 1
    /\ pc = "df_acquire" => dev.imageAvailable = 0
    /\ pc = "df_submit" => dev.renderFinished = 0

\* Every signal of a frame has been waited on when DrawFrame is left
SignalsConsumed ==
    pc \in {"df_return", "idle", "crashed"} =>
       dev.imageAvailable = 0 /\ dev.renderFinished = 0

\* C31: the two frame semaphores are used as binary semaphores over any
\* frames, skipped frames and failures: each signal of ImageAvailable is
\* consumed by one submission's wait and each signal of RenderFinished by
\* one present's wait before the semaphore is signaled again, and no
\* acquire or submission is issued with a semaphore still signaled
C31_BinarySemaphores ==
    SemaphoresFreeWhenSignaled /\ SignalsConsumed

Range(q) == {q[i] : i \in DOMAIN q}

\* The dense and the sparse side of a store agree
SparseConsistent(entityIds, indexByEntity) ==
    /\ \A i \in DOMAIN entityIds :
          /\ entityIds[i] < Len(indexByEntity)
          /\ indexByEntity[entityIds[i] + 1] = i - 1
    /\ \A i \in DOMAIN indexByEntity :
          indexByEntity[i] # kInvalidIndex =>
             /\ indexByEntity[i] + 1 \in DOMAIN entityIds
             /\ entityIds[indexByEntity[i] + 1] = i - 1
    /\ \A i, j \in DOMAIN entityIds : entityIds[i] = entityIds[j] => i = j

StorageConsistent(s) ==
    /\ SparseConsistent(s.entityIds, s.indexByEntity)
    /\ Len(s.components) = Len(s.entityIds)

\* C32: after any adds and removes on a sparse-set store (component
\* storage, transform cache, the scene's mesh and material arrays) the
\* lookup of the id in dense slot i yields i, every valid lookup entry
\* points at a slot holding its id, no id occupies two slots, and the
\* parallel dense arrays have one length
C32_SparseSetsConsistent ==
    pc = "scene" =>
       /\ StorageConsistent(call.scene.transforms)
       /\ StorageConsistent(call.scene.meshes)
       /\ StorageConsistent(call.scene.materials)
       /\ SparseConsistent(call.scene.cache.entityIds,
                           call.scene.cache.indexByEntity)
       /\ Len(call.scene.cache.modelCache) = Len(call.scene.cache.entityIds)
       /\ Len(call.scene.cache.dirty) = Len(call.scene.cache.entityIds)

\* The transform cache after the first of three entries was removed: the
\* last entry sits in its slot
C32_Witness ==
    /\ pc = "scene"
    /\ call.kind = "TransformSystem"
    /\ call.scene.cache.entityIds = <<2, 1>>
    /\ call.scene.cache.dirty = <<0, 1>>

\* What the transform cache holds for an entity
CacheEntry(t, id) ==
    IF Has(t, id)
    THEN <<t.modelCache[GetIndex(t, id) + 1], t.dirty[GetIndex(t, id) + 1]>>
    ELSE <<>>

\* Remove(id) on a storage removes id and leaves every other id alone
RemoveFrames(s, id) ==
    LET after == Remove(s, id)
    IN  /\ ~Has(after, id)
        /\ \A other \in EntityIds \ {id} :
              /\ Has(after, other) = Has(s, other)
              /\ Get(after, other) = Get(s, other)

RemoveTransformFrames(t, id) ==
    LET after == RemoveTransform(t, id)
    IN  /\ ~Has(after, id)
        /\ \A other \in EntityIds \ {id} :
              /\ Has(after, other) = Has(t, other)
              /\ CacheEntry(after, other) = CacheEntry(t, other)

\* C33: removing the component of one entity affects no other entity: after
\* Remove(id), Has(id) is false and for every other id Has, the value Get
\* returns and, in the transform cache, the cached matrix and its dirty
\* flag are as before
C33_RemoveAffectsNoOther ==
    pc = "scene" =>
       \A id \in EntityIds :
          /\ RemoveFrames(call.scene.transforms, id)
          /\ RemoveFrames(call.scene.meshes, id)
          /\ RemoveFrames(call.scene.materials, id)
          /\ RemoveTransformFrames(call.scene.cache, id)
          /\ LET after == RemoveTransformComponent(call.scene, id)
             IN  /\ ~Has(after.transforms, id) /\ ~Has(after.cache, id)
                 /\ after.meshes = call.scene.meshes
                 /\ after.materials = call.scene.materials
                 /\ after.alive = call.scene.alive

\* A storage with three components, where removing the first or the second
\* moves the third
C33_Witness ==
    /\ pc = "scene"
    /\ call.kind = "ComponentStorage"
    /\ call.scene.transforms.entityIds = <<1, 2, 0>>
    /\ call.scene.transforms.components = <<11, 12, 10>>

\* The entities BuildRenderList is to output
Renderable(s) ==
    {id \in SceneIds :
        /\ id < Len(s.alive) /\ s.alive[id + 1]
        /\ id \in Range(s.transforms.entityIds)
        /\ id \in Range(s.meshes.entityIds)
        /\ id \in Range(s.materials.entityIds)}

\* C34: after any entity and component operations BuildRenderList outputs
\* one item for each entity that is alive and has a transform, a mesh and a
\* material, in ascending order of entity id, whatever the list held before,
\* and no other item; an entity that was destroyed is never output again
C34_RenderListIsRenderableEntities ==
    (pc = "scene" /\ call.kind = "Scene") =>
       LET outItems == BuildRenderList(call.scene).outItems
       IN  /\ Len(outItems) = Cardinality(Renderable(call.scene))
           /\ {outItems[i].MeshPtr : i \in DOMAIN outItems}
                 = {ValueOf(id) : id \in Renderable(call.scene)}
           /\ \A i, j \in DOMAIN outItems :
                 i < j => outItems[i].MeshPtr < outItems[j].MeshPtr
           /\ \A i \in DOMAIN outItems :
                 /\ outItems[i].MaterialPtr = outItems[i].MeshPtr
                 /\ outItems[i].Model
                       = BuildModelMatrix(outItems[i].MeshPtr)
           /\ \A id \in call.destroyed :
                 \A i \in DOMAIN outItems : outItems[i].MeshPtr # ValueOf(id)

\* A list was built with two items, then one of the two entities was
\* destroyed and got its components again
C34_Witness ==
    /\ pc = "scene"
    /\ call.kind = "Scene"
    /\ Len(call.scene.outItems) = 2
    /\ call.destroyed # {}
    /\ \E id \in call.destroyed :
          /\ Has(call.scene.transforms, id)
          /\ Has(call.scene.meshes, id)
          /\ Has(call.scene.materials, id)
    /\ Cardinality(Renderable(call.scene)) = 1

\* C35: once the editor's scope guard is armed, every exit path from main,
\* the normal exit after the main loop included, runs the guard's cleanup
\* once: the device-idle wait, then renderer, render pass, swapchain,
\* device, surface, instance and window are destroyed
C35_GuardCleanupRunsOnce ==
    pc = "main_exited" =>
       /\ call.cleanupRuns = 1
       /\ call.cleaned = CleanupCalls

\* The window objects that hold a successful Create not yet destroyed
LiveWindows == {w \in Windows : call.windows[w].Handle}

\* C36: the GLFW reference count is the number of window objects that hold
\* a successful, not yet destroyed Create, and GLFW is terminated exactly
\* when that number is zero: no Destroy releases the reference of another
\* live window
C36_RefCountIsLiveWindows ==
    /\ call.G_GlfwRefCount = Cardinality(LiveWindows)
    /\ call.glfwInitialized <=> LiveWindows # {}

\* C37: after every frame's input sync (SetInputMode, then ApplyInputMode)
\* the cursor is captured exactly when the input mode is Game and the
\* window is focused, whatever key, button and focus events came before
C37_CapturedIffGameAndFocused ==
    pc = "input_synced" =>
       /\ call.cursor = "disabled" <=>
             (call.g_InputMode = "Game" /\ call.WindowFocused)
       /\ call.MouseCaptured <=> call.cursor = "disabled"

\* C37 witness: a sync in Game mode released the cursor of a window that
\* lost the focus in a poll that delivered as many events as a poll can
C37_Witness ==
    /\ pc = "input_synced"
    /\ call.applied = "release"
    /\ call.g_InputMode = "Game"
    /\ ~call.WindowFocused
    /\ call.events = MaxEvents

\* C38: when look input becomes active again, the first cursor event only
\* re-seeds the stored position: no frame's look input contains a delta
\* measured from a stale cursor position
C38_NoLookFromStalePosition ==
    pc = "input_frame_end" => (call.staleDelta => call.LookX = 0)

\* C39: when SetActiveSkybox returns false the previously active skybox is
\* unaffected: its name is still the active one, its cubemap image, view and
\* sampler are the same and alive, and the frames drawn afterwards use live
\* resources
C39_FailedSwitchKeepsPrevious ==
    call.returned = "false" =>
       LET previous == call.before[1]
       IN  /\ call.sky.ActiveSkyboxName = previous.ActiveSkyboxName
           /\ call.sky.CubemapImage = previous.CubemapImage
           /\ call.sky.CubemapView = previous.CubemapView
           /\ <<"image", call.sky.CubemapImage>> \in call.sky.live
           /\ <<"view", call.sky.CubemapView>> \in call.sky.live
           /\ \A i \in 1 .. Len(call.drawn) :
                 /\ <<"view", call.drawn[i].view>> \in call.sky.live
                 /\ <<"sampler", call.drawn[i].sampler>> \in call.sky.live

\* C40: for every byte sequence, run-length scanline decoding writes only
\* inside the Width * 4 scanline buffer: a run or literal count that would
\* pass the end of the scanline is rejected as a decode failure, not written
C40_ScanlineWritesInBounds ==
    /\ call.outside = {}
    /\ pc # "hdr_crashed"
    /\ call.returned = "true" =>
          call.written = 0 .. (call.Width * 4 - 1)

====
